---------------------------- MODULE Spec2Model ----------------------------
(***************************************************************************)
(* Acquisition pipeline and device lifecycle of the two SDR++ source       *)
(* modules of this repository:                                             *)
(*   KC  - source_modules/kcsdr_source/src/main.cpp (KCSDRSourceModule)    *)
(*   BB  - source_modules/signalhound_bb_source/src/main.cpp               *)
(*         (SignalHoundBBModule)                                           *)
(* One instance is modelled; Init chooses which module it is an instance   *)
(* of.  The control thread (GUI thread) runs start/stop/tune/menu handlers *)
(* one at a time, statement by statement (pc); the worker threads run the  *)
(* acquisition loop concurrently (thr).                                     *)
(***************************************************************************)
EXTENDS Integers, Sequences, FiniteSets, TLC

\* ------------------------------------------------------------------ bounds
\* Number of thread slots the operating system offers the instance.
MaxThreads == 2
\* Completed start/stop cycles that are counted (the counter saturates).
MaxCycles == 2
\* Number of device handles that may be open at once (SignalHound BB).
MaxOpen == 2
\* Complex samples per read of the KC worker (SAMPLES_PER_READ, scaled down).
MaxSamples == 2

\* --------------------------------------------------------- program constants
DefaultFreq == 100000000
KC_DefaultSampleRate == 10000000
KC_DefaultPort == 1
KC_DefaultAtt == 0
KC_DefaultGain == 15
KC_DefaultExtGain == 1
BB_AUTO_GAIN == -1
BB_AUTO_ATTEN == -1
BB_DefaultDecimationId == 6
BB_DefaultRefLevel == -20
BB_DefaultBandwidth == 500000
BB_DefaultSampleRate == 625000
BB_MinBandwidth == 200
BB_NativeRate == 40000000
\* divisor of the KC normalisation, "1.0f / 32767.0f"
KC_FullScale == 32767

\* ------------------------------------------------------ inputs (small sets)
Modules == {"KC", "BB"}
\* "normal": a read returns data while the stream runs and may time out or
\* fail at any time.  "blocking": a read returns only once the device's own
\* stop/halt call has been issued.
DevKinds == {"normal", "blocking"}
Freqs == {DefaultFreq, 101000000}
KC_AttVals == {KC_DefaultAtt, 31}
KC_GainVals == {KC_DefaultGain, 30}
KC_ExtGainVals == {KC_DefaultExtGain, 40}
KC_SampleRates == {KC_DefaultSampleRate, 5000000}
KC_Ports == {KC_DefaultPort, 2}
\* int16_t values a raw I or Q word can have: both ends, zero, the smallest
\* magnitudes and one value whose product is not a float
RawVals == {-32768, -1, 0, 12345, 32767}

VARIABLES
    module,          \* which source module the instance belongs to
    devKind,         \* behaviour of the device's blocking read
    op,              \* handler the control thread is in / was last in
    pc,              \* position of the control thread inside the handler
    thr,             \* thread slot -> position of that worker thread
    \* dsp::stream
    writerStop, canSwap,
    \* device
    streaming,       \* the hardware stream is running
    openCount,       \* BB: handles opened and not yet closed
    \* fields shared by both classes
    running, freq, gain,
    \* KCSDRSourceModule
    api, currentDevice, run, workerThread,
    selectedPort, att, extGain, sampleRate,
    \* SignalHoundBBModule
    selectedSerial, deviceHandle, rxThread,
    decimationId, bandwidthHz, refLevel, attenuation, actualSampleRate,
    purgeIQ,         \* "Purge Buffer" request
    \* sample data (KC)
    devData,         \* raw batch the device delivers on a successful read
    readBuffer,      \* thread slot -> that worker's readBuffer
    out,             \* stream.writeBuf as the KC worker last filled it
    \* history
    afterAbort,      \* the handler was entered right after an aborted start()
    trace,           \* what the control thread did in the current handler
    cycles,          \* completed start/stop cycles (saturating)
    snap0            \* configuration snapshot at construction

chan == <<writerStop, canSwap>>
dev == <<streaming, openCount>>
kcFlags == <<api, currentDevice, run, workerThread>>
kcCfg == <<selectedPort, att, extGain, sampleRate>>
bbFlags == <<selectedSerial, deviceHandle, rxThread>>
bbCfg == <<decimationId, bandwidthHz, refLevel, attenuation, actualSampleRate>>
consts == <<module, devKind, snap0, devData>>
data == <<readBuffer, out>>
\* what a handler's first statement leaves alone besides the class fields
entryFrame == <<consts, purgeIQ, data>>
others == <<entryFrame, afterAbort>>
vars == <<module, devKind, op, pc, thr, writerStop, canSwap, streaming, openCount,
          running, freq, gain, api, currentDevice, run, workerThread,
          selectedPort, att, extGain, sampleRate,
          selectedSerial, deviceHandle, rxThread,
          decimationId, bandwidthHz, refLevel, attenuation, actualSampleRate,
          purgeIQ, devData, readBuffer, out, afterAbort, trace, cycles, snap0>>

Slots == 1..MaxThreads
NoThread == 0

\* ------------------------------------------------------------- std::thread
Alive == {t \in Slots : thr[t] \notin {"none", "done"}}
Unjoined == {t \in Slots : thr[t] # "none"}
FreeSlots == {t \in Slots : thr[t] = "none"}
FreeSlot == CHOOSE t \in FreeSlots : \A u \in FreeSlots : t <= u

\* An event of the control thread: <<what, argument, succeeded>>.
Ev(what, arg, ok) == <<what, arg, ok>>
Did(what) == \E i \in 1..Len(trace) : trace[i][1] = what
Pos(what) == CHOOSE i \in 1..Len(trace) : trace[i][1] = what

\* The configuration snapshot held by the controller.
Snapshot ==
    [freq |-> freq, gain |-> gain, port |-> selectedPort, att |-> att,
     extGain |-> extGain, sampleRate |-> sampleRate,
     decimationId |-> decimationId, bandwidthHz |-> bandwidthHz,
     refLevel |-> refLevel, attenuation |-> attenuation]


kcAll == <<kcFlags, kcCfg>>
bbAll == <<bbFlags, bbCfg, openCount>>

\* ------------------------------------------------- sample data (KC worker)
\* A raw batch: I and Q words interleaved, 2 * MaxSamples of them.
RawBuffers == [1..(2 * MaxSamples) -> RawVals]
ZeroBuffer == [i \in 1..(2 * MaxSamples) |-> 0]
ZeroOut == [i \in 1..MaxSamples |-> [re |-> 0, im |-> 0]]

\* Sample values are floats, written as whole multiples of 2^-30: Unit is 1.0f.
Unit == 2^30
Abs(x) == IF x < 0 THEN -x ELSE x

\* Spacing of the floats (24-bit significand) around magnitude a.
RECURSIVE Ulp(_)
Ulp(a) == IF a < 2^24 THEN 1 ELSE 2 * Ulp(a \div 2)

\* The float nearest to p (round to nearest, ties to even): the result of a
\* float operation whose exact result is p.
ToFloat(p) ==
    LET a == Abs(p)
        u == Ulp(a)
        q == a \div u
        r == a % u
        m == IF 2 * r > u \/ (2 * r = u /\ q % 2 = 1) THEN q + 1 ELSE q
    IN  IF p < 0 THEN -(m * u) ELSE m * u

\* a normalisation by 2^15 instead
KC_scale_pow2 == Unit \div 32768

\* "float scale = 1.0f / 32767.0f;": the quotient rounded to a 24-bit
\* significand.  At this magnitude the floats are 2^-38 apart, so the exact
\* quotient is rounded to a multiple of 1/256 of 2^-30; the rounded
\* significand ends in eight zero bits, which leaves a whole multiple of 2^-30.
KC_scale ==
    LET q == Unit \div KC_FullScale
        r == Unit % KC_FullScale
        f == (2 * 256 * r + KC_FullScale) \div (2 * KC_FullScale)
    IN  (256 * q + f) \div 256

\* ------------------------------------------------------------ construction
\* Everything the constructors set that is not configuration.
InitState ==
    /\ module \in Modules
    /\ devKind \in DevKinds
    /\ op = "none" /\ pc = "idle"
    /\ thr = [t \in Slots |-> "none"]
    /\ writerStop = FALSE /\ canSwap = TRUE
    /\ streaming = FALSE /\ openCount = 0
    /\ running = FALSE
    \* kcsdr_init() may fail and leave api null
    /\ api \in (IF module = "KC" THEN BOOLEAN ELSE {FALSE})
    /\ currentDevice = FALSE /\ run = FALSE /\ workerThread = NoThread
    \* selectBySerial() leaves selectedSerial 0 when no device is listed
    /\ selectedSerial \in (IF module = "BB" THEN {0, 1} ELSE {0})
    /\ deviceHandle = -1 /\ rxThread = NoThread
    /\ actualSampleRate = BB_DefaultSampleRate
    /\ purgeIQ = FALSE
    /\ devData = ZeroBuffer
    /\ readBuffer = [t \in Slots |-> ZeroBuffer]
    /\ out = ZeroOut
    /\ afterAbort = FALSE
    /\ trace = <<>>

\* The member initialisers and the constructor's defaults.
InitDefaults ==
    /\ freq = DefaultFreq
    /\ gain = IF module = "KC" THEN KC_DefaultGain ELSE BB_AUTO_GAIN
    /\ selectedPort = KC_DefaultPort /\ att = KC_DefaultAtt
    /\ extGain = KC_DefaultExtGain /\ sampleRate = KC_DefaultSampleRate
    /\ decimationId = BB_DefaultDecimationId
    /\ bandwidthHz = BB_DefaultBandwidth
    /\ refLevel = BB_DefaultRefLevel
    /\ attenuation = BB_AUTO_ATTEN

\* cycles counts the stop() calls completed since counting began and
\* saturates at MaxCycles; Init does not count.
Init ==
    /\ InitState
    /\ InitDefaults
    /\ cycles = MaxCycles
    /\ snap0 = Snapshot

\* ------------------------------------------------- dsp::stream (the channel)
\* swap() waits until the consumer has released the other buffer or the
\* writer has been stopped.
swapBlocked == ~canSwap /\ ~writerStop
\* swap() returns false, publishing nothing, once the writer is stopped.
swapResult == ~writerStop

\* The consumer takes the published batch and releases the buffer (flush).
Consume ==
    /\ ~canSwap
    /\ canSwap' = TRUE
    /\ UNCHANGED <<others, op, pc, thr, writerStop, dev, running, freq, gain,
                   kcAll, bbFlags, bbCfg, trace, cycles>>

\* ------------------------------------------------------ std::thread helpers
\* rxThread = std::thread(...): a new thread starts; move-assigning over a
\* joinable handle calls std::terminate.
SpawnThr == [thr EXCEPT ![FreeSlot] = "loop"]
SpawnPc(handle, next) == IF handle # NoThread THEN "terminated" ELSE next
SpawnHandle(handle) == IF handle # NoThread THEN handle ELSE FreeSlot

\* join() returns once the thread function has returned.
JoinReady(handle) == thr[handle] = "done"

\* --------------------------------------------------------- the device's read
\* Outcome of KC api->read(): TRUE (a batch) or FALSE (timeout, halted).
KC_ReadReturns(success) ==
    IF devKind = "blocking"
    THEN ~streaming /\ ~success
    ELSE success => (streaming /\ currentDevice)

\* Outcome of bbGetIQ(): "data" (bbNoError), "notStreaming"
\* (bbDeviceNotStreamingErr) or "error" (any other status).
BB_Statuses == {"data", "notStreaming", "error"}
BB_GetIQReturns(st) ==
    /\ devKind = "blocking" => ~streaming
    /\ st = "data" => (streaming /\ deviceHandle # -1)
    /\ st = "notStreaming" => (~streaming /\ deviceHandle # -1)
    /\ deviceHandle = -1 => st = "error"

\* No call of the control thread has failed in the current handler.
AllOk(tr) == \A i \in 1..Len(tr) : tr[i][3]

\* start() has returned without starting: it found the capability layer
\* missing or no device selected, or one of its device calls failed.
StartAborted ==
    /\ op = "start" /\ pc = "idle"
    /\ (trace = <<>> /\ ~running) \/ ~AllOk(trace)

\* ======================================================================
\* KCSDRSourceModule: control thread
\* ======================================================================
\* start(): "if (_this->running) return;"
KC_startNoOp_always == FALSE
KC_startNoOp == running

KC_start ==
    /\ module = "KC" /\ pc = "idle"
    /\ afterAbort' = StartAborted
    /\ op' = "start" /\ trace' = <<>>
    /\ pc' = IF KC_startNoOp \/ ~api THEN "idle" ELSE "kc_start_find"
    /\ UNCHANGED <<entryFrame, thr, chan, dev, running, freq, gain, kcAll,
                   bbFlags, bbCfg, cycles>>

\* "if (!currentDevice) { currentDevice = api->find(...); if (!...) return; }"
KC_start_find ==
    /\ pc = "kc_start_find"
    /\ IF currentDevice
       THEN /\ pc' = "kc_start_cfg"
            /\ UNCHANGED <<currentDevice, trace>>
       ELSE \E found \in BOOLEAN :
            /\ currentDevice' = found
            /\ trace' = Append(trace, Ev("find", 0, found))
            /\ pc' = IF found THEN "kc_start_cfg" ELSE "idle"
    /\ UNCHANGED <<others, op, thr, chan, dev, running, freq, gain,
                   api, run, workerThread, kcCfg, bbFlags, bbCfg, cycles>>

\* the setters with the frequency the instance was constructed with
KC_ConfigCalls_initialFreq ==
    << Ev("rx_port", selectedPort, TRUE), Ev("rx_freq", snap0.freq, TRUE),
       Ev("rx_att", att, TRUE), Ev("rx_amp", gain, TRUE),
       Ev("rx_ext_amp", extGain, TRUE), Ev("rx_bw", sampleRate, TRUE),
       Ev("setInputSampleRate", sampleRate, TRUE) >>

\* The six setters in source order, then coreSetInputSampleRate().
KC_ConfigCalls ==
    << Ev("rx_port", selectedPort, TRUE), Ev("rx_freq", freq, TRUE),
       Ev("rx_att", att, TRUE), Ev("rx_amp", gain, TRUE),
       Ev("rx_ext_amp", extGain, TRUE), Ev("rx_bw", sampleRate, TRUE),
       Ev("setInputSampleRate", sampleRate, TRUE) >>

KC_start_cfg ==
    /\ pc = "kc_start_cfg"
    /\ trace' = trace \o KC_ConfigCalls
    /\ pc' = "kc_start_rx"
    /\ UNCHANGED <<others, op, thr, chan, dev, running, freq, gain, kcAll,
                   bbFlags, bbCfg, cycles>>

\* start() without "_this->api->rx_start(_this->currentDevice);"
KC_start_rx_skipped ==
    /\ pc = "kc_start_rx"
    /\ pc' = "kc_start_run"
    /\ UNCHANGED <<others, op, thr, chan, dev, running, freq, gain, kcAll,
                   bbFlags, bbCfg, trace, cycles>>

KC_start_rx ==
    /\ pc = "kc_start_rx"
    /\ streaming' = TRUE
    /\ trace' = Append(trace, Ev("rx_start", 0, TRUE))
    /\ pc' = "kc_start_run"
    /\ UNCHANGED <<others, op, thr, chan, openCount, running, freq, gain, kcAll,
                   bbFlags, bbCfg, cycles>>

KC_start_run ==
    /\ pc = "kc_start_run"
    /\ run' = TRUE
    /\ pc' = "kc_start_spawn"
    /\ UNCHANGED <<others, op, thr, chan, dev, running, freq, gain,
                   api, currentDevice, workerThread, kcCfg, bbFlags, bbCfg,
                   trace, cycles>>

KC_start_spawn ==
    /\ pc = "kc_start_spawn"
    /\ FreeSlots # {}
    /\ thr' = SpawnThr
    /\ workerThread' = SpawnHandle(workerThread)
    /\ trace' = Append(trace, Ev("spawn", FreeSlot, TRUE))
    /\ pc' = SpawnPc(workerThread, "kc_start_running")
    \* "std::vector<int16_t> readBuffer(SAMPLES_PER_READ * 2);"
    /\ readBuffer' = [readBuffer EXCEPT ![FreeSlot] = ZeroBuffer]
    /\ UNCHANGED <<consts, purgeIQ, out, afterAbort, op, chan, dev, running, freq, gain,
                   api, currentDevice, run, kcCfg, bbFlags, bbCfg, cycles>>

KC_start_running ==
    /\ pc = "kc_start_running"
    /\ running' = TRUE
    /\ pc' = "idle"
    /\ UNCHANGED <<others, op, thr, chan, dev, freq, gain, kcAll,
                   bbFlags, bbCfg, trace, cycles>>

\* stop(): "if (!_this->running && !_this->run) return;  _this->run = false;"
KC_stopNoOp_runningOnly == ~running
KC_stopNoOp == ~running /\ ~run

KC_stop ==
    /\ module = "KC" /\ pc = "idle"
    /\ afterAbort' = StartAborted
    /\ op' = "stop" /\ trace' = <<>>
    /\ IF KC_stopNoOp
       THEN pc' = "idle" /\ UNCHANGED run
       ELSE pc' = "kc_stop_halt" /\ run' = FALSE
    /\ UNCHANGED <<entryFrame, thr, chan, dev, running, freq, gain,
                   api, currentDevice, workerThread, kcCfg, bbFlags, bbCfg, cycles>>

\* "if (currentDevice && api) api->rx_stop(currentDevice);"
KC_stop_halt ==
    /\ pc = "kc_stop_halt"
    /\ IF currentDevice /\ api
       THEN /\ streaming' = FALSE
            /\ trace' = Append(trace, Ev("rx_stop", 0, TRUE))
       ELSE UNCHANGED <<streaming, trace>>
    /\ pc' = "kc_stop_sw"
    /\ UNCHANGED <<others, op, thr, chan, openCount, running, freq, gain, kcAll,
                   bbFlags, bbCfg, cycles>>

\* "_this->stream.stopWriter();"
KC_stop_sw ==
    /\ pc = "kc_stop_sw"
    /\ writerStop' = TRUE
    /\ trace' = Append(trace, Ev("stopWriter", 0, TRUE))
    /\ pc' = "kc_stop_join"
    /\ UNCHANGED <<others, op, thr, canSwap, dev, running, freq, gain, kcAll,
                   bbFlags, bbCfg, cycles>>

\* "if (workerThread.joinable()) workerThread.join();" without the wait
KC_stop_join_nowait ==
    /\ pc = "kc_stop_join"
    /\ workerThread' = NoThread
    /\ pc' = "kc_stop_clear"
    /\ UNCHANGED <<others, op, thr, chan, dev, running, freq, gain,
                   api, currentDevice, run, kcCfg, bbFlags, bbCfg, trace, cycles>>

\* "if (workerThread.joinable()) workerThread.join();"
KC_stop_join ==
    /\ pc = "kc_stop_join"
    /\ IF workerThread # NoThread
       THEN /\ JoinReady(workerThread)
            /\ thr' = [thr EXCEPT ![workerThread] = "none"]
            /\ workerThread' = NoThread
            /\ trace' = Append(trace, Ev("join", workerThread, TRUE))
       ELSE UNCHANGED <<thr, workerThread, trace>>
    /\ pc' = "kc_stop_clear"
    /\ UNCHANGED <<others, op, chan, dev, running, freq, gain,
                   api, currentDevice, run, kcCfg, bbFlags, bbCfg, cycles>>

\* "_this->stream.clearWriteStop();"
KC_stop_clear ==
    /\ pc = "kc_stop_clear"
    /\ writerStop' = FALSE
    /\ trace' = Append(trace, Ev("clearWriteStop", 0, TRUE))
    /\ pc' = "kc_stop_fin"
    /\ UNCHANGED <<others, op, thr, canSwap, dev, running, freq, gain, kcAll,
                   bbFlags, bbCfg, cycles>>

\* value stop() leaves in running ("_this->running = false;")
KC_stop_finValue_kept == running
KC_stop_finValue == FALSE

KC_stop_fin ==
    /\ pc = "kc_stop_fin"
    /\ running' = KC_stop_finValue
    /\ cycles' = IF cycles < MaxCycles THEN cycles + 1 ELSE cycles
    /\ pc' = IF op = "destroy" THEN "kc_dtor_close" ELSE "idle"
    /\ UNCHANGED <<others, op, thr, chan, dev, freq, gain, kcAll,
                   bbFlags, bbCfg, trace>>

\* a destructor that drops the device handle before it calls stop()
KC_dtor_closesFirst ==
    /\ module = "KC" /\ pc = "idle"
    /\ afterAbort' = StartAborted
    /\ op' = "destroy"
    /\ trace' = IF currentDevice /\ api THEN << Ev("close", 0, TRUE) >> ELSE <<>>
    /\ currentDevice' = FALSE
    /\ IF KC_stopNoOp
       THEN pc' = "kc_dtor_close" /\ UNCHANGED run
       ELSE pc' = "kc_stop_halt" /\ run' = FALSE
    /\ UNCHANGED <<entryFrame, thr, chan, dev, running, freq, gain,
                   api, workerThread, kcCfg, bbFlags, bbCfg, cycles>>

\* ~KCSDRSourceModule(): "stop(this);"
KC_dtor ==
    /\ module = "KC" /\ pc = "idle"
    /\ afterAbort' = StartAborted
    /\ op' = "destroy" /\ trace' = <<>>
    /\ IF KC_stopNoOp
       THEN pc' = "kc_dtor_close" /\ UNCHANGED run
       ELSE pc' = "kc_stop_halt" /\ run' = FALSE
    /\ UNCHANGED <<entryFrame, thr, chan, dev, running, freq, gain,
                   api, currentDevice, workerThread, kcCfg, bbFlags, bbCfg, cycles>>

\* "if (currentDevice && api) { api->close(currentDevice);
\*  currentDevice = nullptr; }"
KC_dtor_close ==
    /\ pc = "kc_dtor_close"
    /\ IF currentDevice /\ api
       THEN /\ trace' = Append(trace, Ev("close", 0, TRUE))
            /\ currentDevice' = FALSE
       ELSE UNCHANGED <<trace, currentDevice>>
    /\ pc' = "destroyed"
    /\ UNCHANGED <<others, op, thr, chan, dev, running, freq, gain,
                   api, run, workerThread, kcCfg, bbFlags, bbCfg, cycles>>

\* tune(): "if (_this->running) api->rx_freq(currentDevice, freq);"
KC_tuneApplies_inverted == ~running
KC_tuneApplies == running

KC_tune(f) ==
    /\ module = "KC" /\ pc = "idle"
    /\ afterAbort' = StartAborted
    /\ op' = "tune"
    /\ freq' = f
    /\ trace' = IF KC_tuneApplies THEN << Ev("rx_freq", f, TRUE) >> ELSE <<>>
    /\ UNCHANGED <<entryFrame, pc, thr, chan, dev, running, gain, kcAll,
                   bbFlags, bbCfg, cycles>>

\* menuHandler(): the three sliders apply live while running.
KC_setAtt(v) ==
    /\ module = "KC" /\ pc = "idle"
    /\ afterAbort' = StartAborted
    /\ op' = "menu"
    /\ att' = v
    /\ trace' = IF running THEN << Ev("rx_att", v, TRUE) >> ELSE <<>>
    /\ UNCHANGED <<entryFrame, pc, thr, chan, dev, running, freq, gain, kcFlags,
                   selectedPort, extGain, sampleRate, bbFlags, bbCfg, cycles>>

KC_setGain(v) ==
    /\ module = "KC" /\ pc = "idle"
    /\ afterAbort' = StartAborted
    /\ op' = "menu"
    /\ gain' = v
    /\ trace' = IF running THEN << Ev("rx_amp", v, TRUE) >> ELSE <<>>
    /\ UNCHANGED <<entryFrame, pc, thr, chan, dev, running, freq, kcAll,
                   bbFlags, bbCfg, cycles>>

KC_setExtGain(v) ==
    /\ module = "KC" /\ pc = "idle"
    /\ afterAbort' = StartAborted
    /\ op' = "menu"
    /\ extGain' = v
    /\ trace' = IF running THEN << Ev("rx_ext_amp", v, TRUE) >> ELSE <<>>
    /\ UNCHANGED <<entryFrame, pc, thr, chan, dev, running, freq, gain, kcFlags,
                   selectedPort, att, sampleRate, bbFlags, bbCfg, cycles>>

\* menuHandler(): the sample-rate and port combos are disabled while running.
KC_setSampleRate(v) ==
    /\ module = "KC" /\ pc = "idle" /\ ~running
    /\ afterAbort' = StartAborted
    /\ op' = "menu" /\ trace' = <<>>
    /\ sampleRate' = v
    /\ UNCHANGED <<entryFrame, pc, thr, chan, dev, running, freq, gain, kcFlags,
                   selectedPort, att, extGain, bbFlags, bbCfg, cycles>>

KC_setPort(v) ==
    /\ module = "KC" /\ pc = "idle" /\ ~running
    /\ afterAbort' = StartAborted
    /\ op' = "menu" /\ trace' = <<>>
    /\ selectedPort' = v
    /\ UNCHANGED <<entryFrame, pc, thr, chan, dev, running, freq, gain, kcFlags,
                   att, extGain, sampleRate, bbFlags, bbCfg, cycles>>

\* ======================================================================
\* KCSDRSourceModule::worker
\* ======================================================================
workerCtl == <<op, pc, writerStop, dev, running, freq, gain,
               kcAll, bbFlags, bbCfg, trace, cycles>>
workerFrame == <<others, workerCtl>>

\* "while (run) { if (!currentDevice) { sleep; continue; } ... read"
KC_worker_loop(t) ==
    /\ module = "KC" /\ thr[t] = "loop"
    /\ thr' = [thr EXCEPT ![t] = IF ~run THEN "done"
                                 ELSE IF ~currentDevice THEN "loop" ELSE "read"]
    /\ UNCHANGED <<workerFrame, canSwap>>

\* "bool success = api->read(...)"
KC_worker_read(t) ==
    /\ module = "KC" /\ thr[t] = "read"
    /\ \E success \in BOOLEAN :
        /\ KC_ReadReturns(success)
        /\ thr' = [thr EXCEPT ![t] = IF success THEN "conv" ELSE "fail"]
        /\ readBuffer' = IF success THEN [readBuffer EXCEPT ![t] = devData]
                          ELSE readBuffer
    /\ UNCHANGED <<consts, purgeIQ, out, afterAbort, workerCtl, canSwap>>

\* a worker that clears run itself when a read fails
KC_worker_fail_clearsRun(t) ==
    /\ module = "KC" /\ thr[t] = "fail"
    /\ thr' = [thr EXCEPT ![t] = "done"]
    /\ run' = FALSE
    /\ UNCHANGED <<others, op, pc, chan, dev, running, freq, gain,
                   api, currentDevice, workerThread, kcCfg, bbFlags, bbCfg,
                   trace, cycles>>

\* a worker that retries after a failed read whatever run says
KC_worker_fail_alwaysRetry(t) ==
    /\ module = "KC" /\ thr[t] = "fail"
    /\ thr' = [thr EXCEPT ![t] = "loop"]
    /\ UNCHANGED <<workerFrame, canSwap>>

\* "if (!success) { if (!run) break; continue; }"
KC_worker_fail(t) ==
    /\ module = "KC" /\ thr[t] = "fail"
    /\ thr' = [thr EXCEPT ![t] = IF ~run THEN "done" ELSE "loop"]
    /\ UNCHANGED <<workerFrame, canSwap>>

\* "out[i].re = readBuffer[i * 2] * scale;
\*  out[i].im = readBuffer[i * 2 + 1] * scale;" for every i
Convert(buf) ==
    [i \in 1..MaxSamples |-> [re |-> ToFloat(buf[2 * i - 1] * KC_scale),
                              im |-> ToFloat(buf[2 * i] * KC_scale)]]

\* the conversion loop into stream.writeBuf
KC_worker_conv(t) ==
    /\ module = "KC" /\ thr[t] = "conv"
    /\ out' = Convert(readBuffer[t])
    /\ thr' = [thr EXCEPT ![t] = "swap"]
    /\ UNCHANGED <<consts, purgeIQ, readBuffer, afterAbort, workerCtl, canSwap>>

\* "if (!stream.swap(SAMPLES_PER_READ)) break;"
KC_afterSwapFalse_retry == "loop"
KC_afterSwapFalse == "done"

KC_worker_swap(t) ==
    /\ module = "KC" /\ thr[t] = "swap"
    /\ ~swapBlocked
    /\ IF swapResult
       THEN canSwap' = FALSE /\ thr' = [thr EXCEPT ![t] = "loop"]
       ELSE UNCHANGED canSwap /\ thr' = [thr EXCEPT ![t] = KC_afterSwapFalse]
    /\ UNCHANGED workerFrame

\* ======================================================================
\* SignalHoundBBModule: control thread
\* ======================================================================
BB_GainVals == {BB_AUTO_GAIN, 3}
BB_AttenVals == {BB_AUTO_ATTEN, 3}
BB_RefLevels == {BB_DefaultRefLevel, -100}
BB_DecimIds == {5, BB_DefaultDecimationId}
BB_Bandwidths == {100, BB_DefaultBandwidth, 30000000}

\* maxBandwidths, indexed by decimationId (0..13)
maxBandwidths ==
    << 27000000, 17800000, 8000000, 3750000, 2000000, 1000000, 500000,
       250000, 140000, 65000, 30000, 15000, 8000, 4000 >>
MaxBandwidth(d) == maxBandwidths[d + 1]

RECURSIVE Pow2(_)
Pow2(n) == IF n = 0 THEN 1 ELSE 2 * Pow2(n - 1)

\* the validation without its upper test
ClampBandwidth_noUpper(b, d) == IF b < BB_MinBandwidth THEN BB_MinBandwidth ELSE b

\* "if (bw < minBandwidth) bw = minBandwidth; if (bw > maxBandwidth) bw = max"
ClampBandwidth(b, d) ==
    LET lo == IF b < BB_MinBandwidth THEN BB_MinBandwidth ELSE b
    IN  IF lo > MaxBandwidth(d) THEN MaxBandwidth(d) ELSE lo

\* Sample rate the device reports for a decimation (bbQueryIQParameters).
BB_DevRate(d) == BB_NativeRate \div Pow2(d)

\* the configure calls with the centre frequency applied first
BB_ConfigCalls_freqFirst(k, bw) ==
    LET all == << Ev("bbConfigureIQCenter", freq, k >= 1),
                  Ev("bbConfigureRefLevel", refLevel, k >= 2),
                  Ev("bbConfigureGainAtten", <<gain, attenuation>>, k >= 3),
                  Ev("bbConfigureIQ", <<Pow2(decimationId), bw>>, k >= 4) >>
    IN  SubSeq(all, 1, IF k < 4 THEN k + 1 ELSE 4)

\* The four configure calls, joined by ||: the calls after the first failing
\* one are not made.  k is the number of calls that succeed.
BB_ConfigCalls(k, bw) ==
    LET all == << Ev("bbConfigureRefLevel", refLevel, k >= 1),
                  Ev("bbConfigureGainAtten", <<gain, attenuation>>, k >= 2),
                  Ev("bbConfigureIQCenter", freq, k >= 3),
                  Ev("bbConfigureIQ", <<Pow2(decimationId), bw>>, k >= 4) >>
    IN  SubSeq(all, 1, IF k < 4 THEN k + 1 ELSE 4)

bbFrameEntry == <<entryFrame, thr, canSwap, freq, gain, kcAll, selectedSerial,
                  decimationId, refLevel, attenuation>>
bbFrameCtl == <<bbFrameEntry, afterAbort>>

\* start(): "if (_this->running.load() || _this->selectedSerial == 0) return;"
BB_startNoOp_always == selectedSerial = 0
BB_startNoOp == running \/ selectedSerial = 0

BB_start ==
    /\ module = "BB" /\ pc = "idle"
    /\ afterAbort' = StartAborted
    /\ op' = "start" /\ trace' = <<>>
    /\ pc' = IF BB_startNoOp THEN "idle" ELSE "bb_start_open"
    /\ UNCHANGED <<bbFrameEntry, writerStop, dev, running, deviceHandle, rxThread,
                   bandwidthHz, actualSampleRate, cycles>>

\* bbOpenDeviceBySerialNumber(&deviceHandle, selectedSerial)
BB_start_open ==
    /\ pc = "bb_start_open"
    /\ \E ok \in BOOLEAN :
        /\ ok => openCount < MaxOpen
        /\ trace' = Append(trace, Ev("bbOpenDeviceBySerialNumber", selectedSerial, ok))
        /\ IF ok
           THEN /\ deviceHandle' = openCount
                /\ openCount' = openCount + 1
                /\ pc' = "bb_start_cfg"
           ELSE /\ UNCHANGED <<deviceHandle, openCount>>
                /\ pc' = "idle"
    /\ UNCHANGED <<bbFrameCtl, op, writerStop, streaming, running, rxThread,
                   bandwidthHz, actualSampleRate, cycles>>

\* bandwidth validation, then the four configure calls; on failure
\* "bbCloseDevice(deviceHandle); deviceHandle = -1; return;"
BB_start_cfg ==
    /\ pc = "bb_start_cfg"
    /\ bandwidthHz' = ClampBandwidth(bandwidthHz, decimationId)
    /\ \E k \in 0..4 :
        /\ IF k = 4
           THEN /\ trace' = trace \o BB_ConfigCalls(k, bandwidthHz')
                /\ pc' = "bb_start_init"
                /\ UNCHANGED <<deviceHandle, openCount>>
           ELSE /\ trace' = trace \o BB_ConfigCalls(k, bandwidthHz')
                             \o << Ev("bbCloseDevice", deviceHandle, TRUE) >>
                /\ openCount' = openCount - 1
                /\ deviceHandle' = -1
                /\ pc' = "idle"
    /\ UNCHANGED <<bbFrameCtl, op, writerStop, streaming, running, rxThread,
                   actualSampleRate, cycles>>

\* bbInitiate() whose failure path returns without bbCloseDevice
BB_start_init_noclose ==
    /\ pc = "bb_start_init"
    /\ \E ok \in BOOLEAN :
        /\ trace' = Append(trace, Ev("bbInitiate", deviceHandle, ok))
        /\ streaming' = (streaming \/ ok)
        /\ pc' = IF ok THEN "bb_start_query" ELSE "idle"
    /\ UNCHANGED <<bbFrameCtl, op, writerStop, openCount, deviceHandle, running,
                   rxThread, bandwidthHz, actualSampleRate, cycles>>

\* bbInitiate(deviceHandle, BB_STREAMING, BB_STREAM_IQ)
BB_start_init ==
    /\ pc = "bb_start_init"
    /\ \E ok \in BOOLEAN :
        IF ok
        THEN /\ streaming' = TRUE
             /\ trace' = Append(trace, Ev("bbInitiate", deviceHandle, TRUE))
             /\ pc' = "bb_start_query"
             /\ UNCHANGED <<deviceHandle, openCount>>
        ELSE /\ trace' = trace \o << Ev("bbInitiate", deviceHandle, FALSE),
                                     Ev("bbCloseDevice", deviceHandle, TRUE) >>
             /\ openCount' = openCount - 1
             /\ deviceHandle' = -1
             /\ pc' = "idle"
             /\ UNCHANGED streaming
    /\ UNCHANGED <<bbFrameCtl, op, writerStop, running, rxThread,
                   bandwidthHz, actualSampleRate, cycles>>

\* bbQueryIQParameters(); then actualSampleRate and core::setInputSampleRate
BB_start_query ==
    /\ pc = "bb_start_query"
    /\ \E ok \in BOOLEAN :
        IF ok
        THEN /\ actualSampleRate' = BB_DevRate(decimationId)
             /\ trace' = trace \o << Ev("bbQueryIQParameters", deviceHandle, TRUE),
                                     Ev("setInputSampleRate", actualSampleRate', TRUE) >>
             /\ pc' = "bb_start_run"
             /\ UNCHANGED <<deviceHandle, openCount, streaming>>
        ELSE /\ trace' = trace \o << Ev("bbQueryIQParameters", deviceHandle, FALSE),
                                     Ev("bbAbort", deviceHandle, TRUE),
                                     Ev("bbCloseDevice", deviceHandle, TRUE) >>
             /\ streaming' = FALSE
             /\ openCount' = openCount - 1
             /\ deviceHandle' = -1
             /\ pc' = "idle"
             /\ UNCHANGED actualSampleRate
    /\ UNCHANGED <<bbFrameCtl, op, writerStop, running, rxThread,
                   bandwidthHz, cycles>>

\* start() that never sets running
BB_start_run_skipped ==
    /\ pc = "bb_start_run"
    /\ pc' = "bb_start_spawn"
    /\ UNCHANGED <<bbFrameCtl, op, writerStop, dev, running, deviceHandle, rxThread,
                   bandwidthHz, actualSampleRate, trace, cycles>>

\* "_this->running.store(true);"
BB_start_run ==
    /\ pc = "bb_start_run"
    /\ running' = TRUE
    /\ pc' = "bb_start_spawn"
    /\ UNCHANGED <<bbFrameCtl, op, writerStop, dev, deviceHandle, rxThread,
                   bandwidthHz, actualSampleRate, trace, cycles>>

\* "_this->rxThread = std::thread(rx_thread_func, _this);"
BB_start_spawn ==
    /\ pc = "bb_start_spawn"
    /\ FreeSlots # {}
    /\ thr' = SpawnThr
    /\ rxThread' = SpawnHandle(rxThread)
    /\ trace' = Append(trace, Ev("spawn", FreeSlot, TRUE))
    /\ pc' = SpawnPc(rxThread, "idle")
    /\ UNCHANGED <<others, op, chan, dev, running, freq, gain, kcAll,
                   selectedSerial, deviceHandle, bbCfg, cycles>>

\* stop(): "if (!_this->running.load()) return;  _this->running.store(false);"
BB_stop ==
    /\ module = "BB" /\ pc = "idle"
    /\ afterAbort' = StartAborted
    /\ op' = "stop" /\ trace' = <<>>
    /\ IF ~running
       THEN pc' = "idle" /\ UNCHANGED running
       ELSE pc' = "bb_stop_sw" /\ running' = FALSE
    /\ UNCHANGED <<bbFrameEntry, writerStop, dev, deviceHandle, rxThread,
                   bandwidthHz, actualSampleRate, cycles>>

\* "_this->stream.stopWriter();"
BB_stop_sw ==
    /\ pc = "bb_stop_sw"
    /\ writerStop' = TRUE
    /\ trace' = Append(trace, Ev("stopWriter", 0, TRUE))
    /\ pc' = "bb_stop_join"
    /\ UNCHANGED <<bbFrameCtl, op, dev, running, deviceHandle, rxThread,
                   bandwidthHz, actualSampleRate, cycles>>

\* stop() that goes on to close the device without joining
BB_stop_join_skipped ==
    /\ pc = "bb_stop_join"
    /\ pc' = "bb_stop_close"
    /\ UNCHANGED <<others, op, thr, chan, dev, running, freq, gain, kcAll,
                   bbFlags, bbCfg, trace, cycles>>

\* "if (_this->rxThread.joinable()) _this->rxThread.join();"
BB_stop_join ==
    /\ pc = "bb_stop_join"
    /\ IF rxThread # NoThread
       THEN /\ JoinReady(rxThread)
            /\ thr' = [thr EXCEPT ![rxThread] = "none"]
            /\ rxThread' = NoThread
            /\ trace' = Append(trace, Ev("join", rxThread, TRUE))
       ELSE UNCHANGED <<thr, rxThread, trace>>
    /\ pc' = "bb_stop_close"
    /\ UNCHANGED <<others, op, chan, dev, running, freq, gain, kcAll,
                   selectedSerial, deviceHandle, bbCfg, cycles>>

\* stop() that leaves the device open
BB_stop_close_skipped ==
    /\ pc = "bb_stop_close"
    /\ pc' = "bb_stop_clear"
    /\ UNCHANGED <<bbFrameCtl, op, writerStop, dev, running, deviceHandle, rxThread,
                   bandwidthHz, actualSampleRate, trace, cycles>>

\* "if (deviceHandle != -1) { bbAbort; bbCloseDevice; deviceHandle = -1; }"
BB_stop_close ==
    /\ pc = "bb_stop_close"
    /\ IF deviceHandle # -1
       THEN /\ trace' = trace \o << Ev("bbAbort", deviceHandle, TRUE),
                                    Ev("bbCloseDevice", deviceHandle, TRUE) >>
            /\ streaming' = FALSE
            /\ openCount' = openCount - 1
            /\ deviceHandle' = -1
       ELSE UNCHANGED <<trace, streaming, openCount, deviceHandle>>
    /\ pc' = "bb_stop_clear"
    /\ UNCHANGED <<bbFrameCtl, op, writerStop, running, rxThread,
                   bandwidthHz, actualSampleRate, cycles>>

\* "_this->stream.clearWriteStop();"
BB_stop_clear ==
    /\ pc = "bb_stop_clear"
    /\ writerStop' = FALSE
    /\ trace' = Append(trace, Ev("clearWriteStop", 0, TRUE))
    /\ cycles' = IF cycles < MaxCycles THEN cycles + 1 ELSE cycles
    /\ pc' = IF op = "destroy" THEN "destroyed" ELSE "idle"
    /\ UNCHANGED <<bbFrameCtl, op, dev, running, deviceHandle, rxThread,
                   bandwidthHz, actualSampleRate>>

\* ~SignalHoundBBModule(): "stop(this);"
BB_dtor ==
    /\ module = "BB" /\ pc = "idle"
    /\ afterAbort' = StartAborted
    /\ op' = "destroy" /\ trace' = <<>>
    /\ IF ~running
       THEN pc' = "destroyed" /\ UNCHANGED running
       ELSE pc' = "bb_stop_sw" /\ running' = FALSE
    /\ UNCHANGED <<bbFrameEntry, writerStop, dev, deviceHandle, rxThread,
                   bandwidthHz, actualSampleRate, cycles>>

\* tune(): "_this->freq = freq; if (running && deviceHandle != -1) restart..."
BB_tune(f) ==
    /\ module = "BB" /\ pc = "idle"
    /\ afterAbort' = StartAborted
    /\ op' = "tune" /\ trace' = <<>>
    /\ freq' = f
    /\ pc' = IF running /\ deviceHandle # -1 THEN "bb_rs_entry" ELSE "idle"
    /\ UNCHANGED <<entryFrame, thr, chan, dev, running, gain, kcAll, bbFlags, bbCfg,
                   cycles>>

\* menuHandler(): gain combo, "if (wasRunning) restartStreamWithNewParams(...)"
BB_setGain(v) ==
    /\ module = "BB" /\ pc = "idle"
    /\ afterAbort' = StartAborted
    /\ op' = "setGain" /\ trace' = <<>>
    /\ gain' = v
    /\ pc' = IF running THEN "bb_rs_entry" ELSE "idle"
    /\ UNCHANGED <<entryFrame, thr, chan, dev, running, freq, kcAll, bbFlags, bbCfg,
                   cycles>>

\* menuHandler(): attenuation combo
BB_setAttenuation(v) ==
    /\ module = "BB" /\ pc = "idle"
    /\ afterAbort' = StartAborted
    /\ op' = "setAttenuation" /\ trace' = <<>>
    /\ attenuation' = v
    /\ pc' = IF running THEN "bb_rs_entry" ELSE "idle"
    /\ UNCHANGED <<entryFrame, thr, chan, dev, running, freq, gain, kcAll, bbFlags,
                   decimationId, bandwidthHz, refLevel, actualSampleRate, cycles>>

\* menuHandler(): reference level slider, "if (wasRunning) updateRefLevel()"
BB_setRefLevel(v) ==
    /\ module = "BB" /\ pc = "idle"
    /\ afterAbort' = StartAborted
    /\ op' = "setRefLevel" /\ trace' = <<>>
    /\ refLevel' = v
    /\ pc' = IF running /\ deviceHandle # -1 THEN "bb_rs_entry" ELSE "idle"
    /\ UNCHANGED <<entryFrame, thr, chan, dev, running, freq, gain, kcAll, bbFlags,
                   decimationId, bandwidthHz, attenuation, actualSampleRate, cycles>>

\* menuHandler(): decimation combo (disabled while running); a bandwidth above
\* the new maximum is lowered to it.
BB_setDecimation(d) ==
    /\ module = "BB" /\ pc = "idle" /\ ~running
    /\ afterAbort' = StartAborted
    /\ op' = "setDecimation" /\ trace' = <<>>
    /\ decimationId' = d
    /\ bandwidthHz' = IF bandwidthHz > MaxBandwidth(d) THEN MaxBandwidth(d)
                      ELSE bandwidthHz
    /\ UNCHANGED <<entryFrame, pc, thr, chan, dev, running, freq, gain, kcAll, bbFlags,
                   refLevel, attenuation, actualSampleRate, cycles>>

\* menuHandler(): bandwidth slider (disabled while running)
BB_setBandwidth(b) ==
    /\ module = "BB" /\ pc = "idle" /\ ~running
    /\ afterAbort' = StartAborted
    /\ op' = "setBandwidth" /\ trace' = <<>>
    /\ bandwidthHz' = b
    /\ UNCHANGED <<entryFrame, pc, thr, chan, dev, running, freq, gain, kcAll, bbFlags,
                   decimationId, refLevel, attenuation, actualSampleRate, cycles>>

\* menuHandler(): "SmGui::Checkbox("Purge Buffer", &_this->purgeIQ);" (enabled
\* whether running or not)
BB_setPurge(v) ==
    /\ module = "BB" /\ pc = "idle"
    /\ afterAbort' = StartAborted
    /\ op' = "setPurge" /\ trace' = <<>>
    /\ purgeIQ' = v
    /\ UNCHANGED <<consts, data, pc, thr, chan, dev, running, freq, gain, kcAll, bbFlags,
                   bbCfg, cycles>>

\* ---------------------------------------------- restartStreamWithNewParams
\* "if (!running.load() || deviceHandle == -1) return; running.store(false);"
BB_rs_entry ==
    /\ pc = "bb_rs_entry"
    /\ IF ~running \/ deviceHandle = -1
       THEN pc' = "idle" /\ UNCHANGED running
       ELSE pc' = "bb_rs_sw" /\ running' = FALSE
    /\ UNCHANGED <<bbFrameCtl, op, writerStop, dev, deviceHandle, rxThread,
                   bandwidthHz, actualSampleRate, trace, cycles>>

BB_rs_sw ==
    /\ pc = "bb_rs_sw"
    /\ writerStop' = TRUE
    /\ trace' = Append(trace, Ev("stopWriter", 0, TRUE))
    /\ pc' = "bb_rs_join"
    /\ UNCHANGED <<bbFrameCtl, op, dev, running, deviceHandle, rxThread,
                   bandwidthHz, actualSampleRate, cycles>>

\* restartStreamWithNewParams going on without waiting for the worker
BB_rs_join_nowait ==
    /\ pc = "bb_rs_join"
    /\ rxThread' = NoThread
    /\ pc' = "bb_rs_abort"
    /\ UNCHANGED <<others, op, thr, chan, dev, running, freq, gain, kcAll,
                   selectedSerial, deviceHandle, bbCfg, trace, cycles>>

\* restartStreamWithNewParams without the join
BB_rs_join_skipped ==
    /\ pc = "bb_rs_join"
    /\ pc' = "bb_rs_abort"
    /\ UNCHANGED <<others, op, thr, chan, dev, running, freq, gain, kcAll,
                   bbFlags, bbCfg, trace, cycles>>

BB_rs_join ==
    /\ pc = "bb_rs_join"
    /\ IF rxThread # NoThread
       THEN /\ JoinReady(rxThread)
            /\ thr' = [thr EXCEPT ![rxThread] = "none"]
            /\ rxThread' = NoThread
            /\ trace' = Append(trace, Ev("join", rxThread, TRUE))
       ELSE UNCHANGED <<thr, rxThread, trace>>
    /\ pc' = "bb_rs_abort"
    /\ UNCHANGED <<others, op, chan, dev, running, freq, gain, kcAll,
                   selectedSerial, deviceHandle, bbCfg, cycles>>

\* "bbAbort(_this->deviceHandle);"
BB_rs_abort ==
    /\ pc = "bb_rs_abort"
    /\ streaming' = FALSE
    /\ trace' = Append(trace, Ev("bbAbort", deviceHandle, TRUE))
    /\ pc' = "bb_rs_cfg"
    /\ UNCHANGED <<bbFrameCtl, op, writerStop, openCount, running, deviceHandle,
                   rxThread, bandwidthHz, actualSampleRate, cycles>>

\* bandwidth validation and the four configure calls; on failure "return;"
BB_rs_cfg ==
    /\ pc = "bb_rs_cfg"
    /\ bandwidthHz' = ClampBandwidth(bandwidthHz, decimationId)
    /\ \E k \in 0..4 :
        /\ trace' = trace \o BB_ConfigCalls(k, bandwidthHz')
        /\ pc' = IF k = 4 THEN "bb_rs_init" ELSE "idle"
    /\ UNCHANGED <<bbFrameCtl, op, writerStop, dev, running, deviceHandle,
                   rxThread, actualSampleRate, cycles>>

\* bbInitiate(); on failure "return;"
BB_rs_init ==
    /\ pc = "bb_rs_init"
    /\ \E ok \in BOOLEAN :
        /\ trace' = Append(trace, Ev("bbInitiate", deviceHandle, ok))
        /\ streaming' = ok
        /\ pc' = IF ok THEN "bb_rs_query" ELSE "idle"
    /\ UNCHANGED <<bbFrameCtl, op, writerStop, openCount, running, deviceHandle,
                   rxThread, bandwidthHz, actualSampleRate, cycles>>

\* "if (check_status(bbQueryIQParameters(...))) { actualSampleRate = ...;
\*  core::setInputSampleRate(actualSampleRate); }"
BB_rs_query ==
    /\ pc = "bb_rs_query"
    /\ \E ok \in BOOLEAN :
        IF ok
        THEN /\ actualSampleRate' = BB_DevRate(decimationId)
             /\ trace' = trace \o << Ev("bbQueryIQParameters", deviceHandle, TRUE),
                                     Ev("setInputSampleRate", actualSampleRate', TRUE) >>
        ELSE /\ trace' = Append(trace, Ev("bbQueryIQParameters", deviceHandle, FALSE))
             /\ UNCHANGED actualSampleRate
    /\ pc' = "bb_rs_clear"
    /\ UNCHANGED <<bbFrameCtl, op, writerStop, dev, running, deviceHandle,
                   rxThread, bandwidthHz, cycles>>

\* "_this->stream.clearWriteStop();" left out
BB_rs_clear_skipped ==
    /\ pc = "bb_rs_clear"
    /\ pc' = "bb_rs_run"
    /\ UNCHANGED <<bbFrameCtl, op, writerStop, dev, running, deviceHandle, rxThread,
                   bandwidthHz, actualSampleRate, trace, cycles>>

\* "_this->stream.clearWriteStop();"
BB_rs_clear ==
    /\ pc = "bb_rs_clear"
    /\ writerStop' = FALSE
    /\ trace' = Append(trace, Ev("clearWriteStop", 0, TRUE))
    /\ pc' = "bb_rs_run"
    /\ UNCHANGED <<bbFrameCtl, op, dev, running, deviceHandle, rxThread,
                   bandwidthHz, actualSampleRate, cycles>>

\* "_this->running.store(true);"
BB_rs_run ==
    /\ pc = "bb_rs_run"
    /\ running' = TRUE
    /\ pc' = "bb_rs_spawn"
    /\ UNCHANGED <<bbFrameCtl, op, writerStop, dev, deviceHandle, rxThread,
                   bandwidthHz, actualSampleRate, trace, cycles>>

\* "_this->rxThread = std::thread(rx_thread_func, _this);"
BB_rs_spawn ==
    /\ pc = "bb_rs_spawn"
    /\ FreeSlots # {}
    /\ thr' = SpawnThr
    /\ rxThread' = SpawnHandle(rxThread)
    /\ trace' = Append(trace, Ev("spawn", FreeSlot, TRUE))
    /\ pc' = SpawnPc(rxThread, "idle")
    /\ UNCHANGED <<others, op, chan, dev, running, freq, gain, kcAll,
                   selectedSerial, deviceHandle, bbCfg, cycles>>

\* ======================================================================
\* SignalHoundBBModule::rx_thread_func
\* ======================================================================
\* "while (_this->running.load()) { ... bbGetIQ(...)"
\* "pkt.purge = purgeIQ ? 1 : 0; if (purgeIQ) purgeIQ = false;"
BB_rx_loop(t) ==
    /\ module = "BB" /\ thr[t] = "loop"
    /\ thr' = [thr EXCEPT ![t] = IF ~running THEN "done" ELSE "read"]
    /\ purgeIQ' = IF running THEN FALSE ELSE purgeIQ
    /\ UNCHANGED <<consts, data, afterAbort, op, pc, chan, dev, running, freq, gain,
                   kcAll, bbFlags, bbCfg, trace, cycles>>

\* "if (status != bbNoError) { if (status == bbDeviceNotStreamingErr)
\*  { sleep; continue; } else { break; } }"
BB_afterGetIQ(st) ==
    CASE st = "data" -> "swap"
      [] st = "notStreaming" -> "loop"
      [] OTHER -> "done"

BB_rx_read(t) ==
    /\ module = "BB" /\ thr[t] = "read"
    /\ \E st \in BB_Statuses :
        /\ BB_GetIQReturns(st)
        /\ thr' = [thr EXCEPT ![t] = BB_afterGetIQ(st)]
    /\ UNCHANGED <<workerFrame, canSwap>>

\* "if (!_this->stream.swap(pkt.iqCount)) break;"
BB_afterSwapFalse == "done"

BB_rx_swap(t) ==
    /\ module = "BB" /\ thr[t] = "swap"
    /\ ~swapBlocked
    /\ IF swapResult
       THEN canSwap' = FALSE /\ thr' = [thr EXCEPT ![t] = "loop"]
       ELSE UNCHANGED canSwap /\ thr' = [thr EXCEPT ![t] = BB_afterSwapFalse]
    /\ UNCHANGED workerFrame

\* ======================================================================
\* The system
\* ======================================================================
KC_Worker(t) ==
    \/ KC_worker_loop(t) \/ KC_worker_read(t) \/ KC_worker_fail(t)
    \/ KC_worker_conv(t) \/ KC_worker_swap(t)

BB_Worker(t) == BB_rx_loop(t) \/ BB_rx_read(t) \/ BB_rx_swap(t)

Next ==
    \/ KC_start \/ KC_start_find \/ KC_start_cfg \/ KC_start_rx
    \/ KC_start_run \/ KC_start_spawn \/ KC_start_running
    \/ KC_stop \/ KC_stop_halt \/ KC_stop_sw \/ KC_stop_join
    \/ KC_stop_clear \/ KC_stop_fin
    \/ KC_dtor \/ KC_dtor_close
    \/ \E f \in Freqs : KC_tune(f)
    \/ \E v \in KC_AttVals : KC_setAtt(v)
    \/ \E v \in KC_GainVals : KC_setGain(v)
    \/ \E v \in KC_ExtGainVals : KC_setExtGain(v)
    \/ \E v \in KC_SampleRates : KC_setSampleRate(v)
    \/ \E v \in KC_Ports : KC_setPort(v)
    \/ BB_start \/ BB_start_open \/ BB_start_cfg \/ BB_start_init
    \/ BB_start_query \/ BB_start_run \/ BB_start_spawn
    \/ BB_stop \/ BB_stop_sw \/ BB_stop_join \/ BB_stop_close \/ BB_stop_clear
    \/ BB_dtor
    \/ \E f \in Freqs : BB_tune(f)
    \/ \E v \in BB_GainVals : BB_setGain(v)
    \/ \E v \in BB_AttenVals : BB_setAttenuation(v)
    \/ \E v \in BB_RefLevels : BB_setRefLevel(v)
    \/ \E d \in BB_DecimIds : BB_setDecimation(d)
    \/ \E b \in BB_Bandwidths : BB_setBandwidth(b)
    \/ \E v \in BOOLEAN : BB_setPurge(v)
    \/ BB_rs_entry \/ BB_rs_sw \/ BB_rs_join \/ BB_rs_abort \/ BB_rs_cfg
    \/ BB_rs_init \/ BB_rs_query \/ BB_rs_clear \/ BB_rs_run \/ BB_rs_spawn
    \/ \E t \in Slots : pc # "terminated" /\ KC_Worker(t)
    \/ \E t \in Slots : pc # "terminated" /\ BB_Worker(t)
    \/ pc # "terminated" /\ Consume

Spec == Init /\ [][Next]_vars

\* Every step of the control thread inside a handler it has entered.
ControlStep ==
    \/ KC_start_find \/ KC_start_cfg \/ KC_start_rx \/ KC_start_run
    \/ KC_start_spawn \/ KC_start_running
    \/ KC_stop_halt \/ KC_stop_sw \/ KC_stop_join \/ KC_stop_clear \/ KC_stop_fin
    \/ KC_dtor_close
    \/ BB_start_open \/ BB_start_cfg \/ BB_start_init \/ BB_start_query
    \/ BB_start_run \/ BB_start_spawn
    \/ BB_stop_sw \/ BB_stop_join \/ BB_stop_close \/ BB_stop_clear
    \/ BB_rs_entry \/ BB_rs_sw \/ BB_rs_join \/ BB_rs_abort \/ BB_rs_cfg
    \/ BB_rs_init \/ BB_rs_query \/ BB_rs_clear \/ BB_rs_run \/ BB_rs_spawn

WorkerStep(t) == pc # "terminated" /\ (KC_Worker(t) \/ BB_Worker(t))

\* Both threads are scheduled: a handler that has been entered keeps running
\* and a worker that can take a step eventually takes it.  Which handler is
\* called next, and whether the consumer reads, is left open.
SpecFair ==
    /\ Init /\ [][Next]_vars
    /\ WF_vars(ControlStep)
    /\ \A t \in Slots : WF_vars(WorkerStep(t))

\* --------------------------------------------------- a start in progress
\* KC start() between "run = true" and "running = true": the stream has been
\* started, run is set, running is not yet, and the worker thread is either
\* about to be spawned or has just been spawned.
InitMidStart ==
    /\ module = "KC" /\ devKind \in DevKinds
    /\ op = "start" /\ pc = "idle"
    /\ \E spawned \in BOOLEAN :
        /\ thr = [t \in Slots |-> IF spawned /\ t = 1 THEN "loop" ELSE "none"]
        /\ workerThread = IF spawned THEN 1 ELSE NoThread
    /\ writerStop = FALSE /\ canSwap = TRUE
    /\ streaming = TRUE /\ openCount = 0
    /\ running = FALSE /\ run = TRUE
    /\ api = TRUE /\ currentDevice = TRUE
    /\ selectedSerial = 0 /\ deviceHandle = -1 /\ rxThread = NoThread
    /\ actualSampleRate = BB_DefaultSampleRate
    /\ purgeIQ = FALSE
    /\ devData = ZeroBuffer
    /\ readBuffer = [t \in Slots |-> ZeroBuffer]
    /\ out = ZeroOut
    /\ afterAbort = FALSE
    /\ InitDefaults
    /\ trace = KC_ConfigCalls \o << Ev("rx_start", 0, TRUE) >>
    /\ cycles = MaxCycles
    /\ snap0 = Snapshot

\* Every behaviour of Spec, and every behaviour in which the handlers are
\* called on an instance whose start() is in progress.
SpecMidStart == (Init \/ InitMidStart) /\ [][Next]_vars

\* ------------------------------------------------ start/stop cycles only
\* An instance that has not been started yet, with any configuration the
\* config file and the menu can have left in the snapshot.
InitRestart ==
    /\ InitState
    /\ freq \in Freqs
    /\ IF module = "KC"
       THEN /\ gain \in KC_GainVals /\ att \in KC_AttVals
            /\ extGain \in KC_ExtGainVals /\ sampleRate \in KC_SampleRates
            /\ selectedPort \in KC_Ports
            /\ decimationId = BB_DefaultDecimationId
            /\ bandwidthHz = BB_DefaultBandwidth
            /\ refLevel = BB_DefaultRefLevel /\ attenuation = BB_AUTO_ATTEN
       ELSE /\ gain \in BB_GainVals /\ attenuation \in BB_AttenVals
            /\ refLevel \in BB_RefLevels /\ decimationId \in BB_DecimIds
            /\ bandwidthHz \in BB_Bandwidths
            /\ selectedPort = KC_DefaultPort /\ att = KC_DefaultAtt
            /\ extGain = KC_DefaultExtGain /\ sampleRate = KC_DefaultSampleRate
    /\ cycles = 0
    /\ snap0 = Snapshot

\* Only start() and stop() are called, and the device calls they make succeed.
NextRestart ==
    \/ (KC_start \/ BB_start \/ KC_stop \/ BB_stop \/ ControlStep) /\ AllOk(trace')
    \/ \E t \in Slots : WorkerStep(t)
    \/ pc # "terminated" /\ Consume

SpecRestart == InitRestart /\ [][NextRestart]_vars

\* ------------------------------------------- bandwidth validation, all inputs
\* Requested bandwidths: below the minimum, the minimum, and every entry of
\* maxBandwidths (for each decimation some are below, one is equal and, except
\* for the largest, some are above its maximum), and one above them all.
CoerceDecimIds == 0..13
CoerceBandwidths ==
    {100, BB_MinBandwidth, 3999} \cup {maxBandwidths[i] : i \in 1..Len(maxBandwidths)}
        \cup {27000002}

\* A BB instance with a device selected and any decimation and bandwidth in
\* its snapshot.
InitCoerce ==
    /\ InitState
    /\ module = "BB" /\ devKind = "normal" /\ selectedSerial = 1
    /\ freq = DefaultFreq /\ gain = BB_AUTO_GAIN
    /\ selectedPort = KC_DefaultPort /\ att = KC_DefaultAtt
    /\ extGain = KC_DefaultExtGain /\ sampleRate = KC_DefaultSampleRate
    /\ refLevel = BB_DefaultRefLevel /\ attenuation = BB_AUTO_ATTEN
    /\ decimationId \in CoerceDecimIds
    /\ bandwidthHz \in CoerceBandwidths
    /\ cycles = MaxCycles
    /\ snap0 = Snapshot

\* start(), stop() and tune() (which restarts the stream) with their steps.
NextCoerce ==
    \/ BB_start \/ BB_start_open \/ BB_start_cfg \/ BB_start_init
    \/ BB_start_query \/ BB_start_run \/ BB_start_spawn
    \/ BB_stop \/ BB_stop_sw \/ BB_stop_join \/ BB_stop_close \/ BB_stop_clear
    \/ BB_tune(DefaultFreq)
    \/ BB_rs_entry \/ BB_rs_sw \/ BB_rs_join \/ BB_rs_abort \/ BB_rs_cfg
    \/ BB_rs_init \/ BB_rs_query \/ BB_rs_clear \/ BB_rs_run \/ BB_rs_spawn
    \/ \E t \in Slots : pc # "terminated" /\ BB_Worker(t)
    \/ pc # "terminated" /\ Consume

SpecCoerce == InitCoerce /\ [][NextCoerce]_vars

\* ======================================================================
\* Properties
\* ======================================================================
\* The worker's "should continue" flag: run (KC), running (BB).
ShouldContinue == IF module = "KC" THEN run ELSE running

StopPcs == {"kc_stop_halt", "kc_stop_sw", "kc_stop_join", "kc_stop_clear",
            "kc_stop_fin", "bb_stop_sw", "bb_stop_join", "bb_stop_close",
            "bb_stop_clear"}
\* restartStreamWithNewParams, past its entry test
RestartPcs == {"bb_rs_sw", "bb_rs_join", "bb_rs_abort", "bb_rs_cfg",
               "bb_rs_init", "bb_rs_query", "bb_rs_clear", "bb_rs_run",
               "bb_rs_spawn"}

HaltCalls == {"rx_stop", "bbAbort"}
StopSteps == HaltCalls \cup {"stopWriter", "join", "clearWriteStop"}
StepKind(w) == IF w \in HaltCalls THEN "halt" ELSE w
\* The stop steps of the current handler, in the order they were made.
StopOrder == [i \in 1..Len(SelectSeq(trace, LAMBDA e : e[1] \in StopSteps)) |->
                 StepKind(SelectSeq(trace, LAMBDA e : e[1] \in StopSteps)[i][1])]
IsPrefix(a, b) == Len(a) <= Len(b) /\ a = SubSeq(b, 1, Len(a))

\* C1: at most one acquisition worker thread is alive at any time, for every
\* sequence of start, stop, tune and reconfigure calls, failing device calls
\* included.
C1_AtMostOneWorker == Cardinality(Alive) <= 1

\* A worker runs after a start that followed a failed reconfigure (the handle
\* the failed restart left open is still counted).
C1_Witness ==
    /\ Cardinality(Alive) = 1
    /\ module = "BB" /\ op = "start" /\ pc = "idle" /\ openCount = 2

\* C2: in every stop path the steps come in the order device halt, stopWriter,
\* join, clearWriteStop.
C2_StopOrdering ==
    op # "start" => IsPrefix(StopOrder, <<"halt", "stopWriter", "join", "clearWriteStop">>)

\* C4: once stop() has returned the instance is Stopped: no worker alive, the
\* stream halted, the BB handle closed, the channel's stop flag clear.
C4_StopPostcondition ==
    (op = "stop" /\ pc = "idle") =>
        /\ Alive = {}
        /\ ~streaming
        /\ module = "BB" => deviceHandle = -1
        /\ ~writerStop

\* C7: a worker leaves its loop only because the should-continue flag is false
\* or because swap() reported the channel stopped.
C7_WorkerExitsOnlyOnShutdown ==
    [][\A t \in Slots :
          (thr[t] \notin {"none", "done"} /\ thr'[t] = "done")
              => (~ShouldContinue \/ (thr[t] = "swap" /\ writerStop))]_vars

\* C9: the channel's stop flag is cleared only while no worker is alive.
C9_JoinBeforeReset ==
    [][(writerStop /\ ~writerStop') => Alive = {}]_vars

\* A restart has joined the worker and then cleared the flag.
C9_Witness ==
    /\ op = "setGain" /\ Did("join") /\ Did("clearWriteStop")
    /\ Pos("join") < Pos("clearWriteStop")

\* C10: between stopWriter and clearWriteStop nothing is published, and a
\* worker whose swap() returned false exits at once.
C10_CommitAfterStop ==
    [][/\ (canSwap /\ ~canSwap') => ~writerStop
       /\ \A t \in Slots :
            (thr[t] = "swap" /\ thr'[t] # "swap" /\ writerStop)
                => thr'[t] = "done"]_vars

\* Stop has been signalled while a worker is inside swap().
C10_Witness ==
    /\ writerStop /\ pc \in StopPcs
    /\ \E t \in Slots : thr[t] = "swap"

\* C3: with a device whose read returns only after its halt call, a stop()
\* made while Running eventually returns.
C3_StopReturns == (pc \in StopPcs /\ devKind = "blocking") ~> (pc \notin StopPcs)

\* What a start leaves of a snapshot: the bandwidth clamped (BB), the rest as is.
Coerced(snap) ==
    IF module = "BB"
    THEN [snap EXCEPT !.bandwidthHz = ClampBandwidth(snap.bandwidthHz, snap.decimationId)]
    ELSE snap

\* C8: after N >= 1 start/stop cycles the instance is Stopped, no thread is
\* alive or joinable, the channel's stop flag is clear and the snapshot is the
\* one it began with (its bandwidth clamped).
C8_CleanRestart ==
    (cycles >= 1 /\ op = "stop" /\ pc = "idle") =>
        /\ ~running /\ ~run
        /\ Unjoined = {} /\ workerThread = NoThread /\ rxThread = NoThread
        /\ ~writerStop
        /\ Snapshot = Coerced(snap0)

\* MaxCycles cycles are done and the first start clamped the bandwidth.
C8_Witness ==
    /\ cycles = MaxCycles /\ op = "stop" /\ pc = "idle"
    /\ module = "BB" /\ bandwidthHz # snap0.bandwidthHz

\* Handlers that end in restartStreamWithNewParams.
ReconfigOps == {"tune", "setGain", "setAttenuation", "setRefLevel"}
ReapplyCalls == {"bbConfigureRefLevel", "bbConfigureGainAtten",
                 "bbConfigureIQCenter", "bbConfigureIQ", "bbInitiate"}
ReapplyOk(tr) == \A i \in 1..Len(tr) : tr[i][1] \in ReapplyCalls => tr[i][3]
Has(tr, what) == \E i \in 1..Len(tr) : tr[i][1] = what

\* The instance is Running with one live worker on a clear channel.
RunningAgain ==
    /\ running
    /\ Cardinality(Alive) = 1
    /\ rxThread \in Alive
    /\ ~writerStop

NoRestartStep ==
    /\ writerStop' = writerStop
    /\ streaming' = streaming
    /\ workerThread' = workerThread /\ rxThread' = rxThread
    /\ \A t \in Slots : (thr[t] = "none") <=> (thr'[t] = "none")

RECURSIVE CountOk(_, _)
CountOk(tr, what) ==
    IF tr = <<>> THEN 0
    ELSE (IF Head(tr)[1] = what /\ Head(tr)[3] THEN 1 ELSE 0) + CountOk(Tail(tr), what)


\* C11: a start() that aborts (capability layer unavailable, no device
\* selected or found, an open/configure/initiate/query call failing) leaves
\* the instance Stopped: running and should-continue false, no worker spawned,
\* and every handle that start opened closed again.
C11_FailedStartIsClean ==
    StartAborted =>
        /\ ~running /\ ~ShouldContinue
        /\ ~Did("spawn") /\ Alive = {}
        /\ workerThread = NoThread /\ rxThread = NoThread
        /\ CountOk(trace, "bbOpenDeviceBySerialNumber") = CountOk(trace, "bbCloseDevice")
        /\ CountOk(trace, "bbOpenDeviceBySerialNumber") > 0 => deviceHandle = -1

\* A BB start whose bbQueryIQParameters failed after open, configure and
\* initiate succeeded.
C11_Witness ==
    /\ StartAborted /\ module = "BB"
    /\ CountOk(trace, "bbInitiate") = 1 /\ Did("bbQueryIQParameters")
    /\ Did("bbCloseDevice")


\* State a handler that does nothing leaves alone: everything but the record
\* of which handler was called.
HandlerFrame == <<entryFrame, pc, thr, chan, dev, running, freq, gain, kcAll,
                  bbFlags, bbCfg, cycles>>

\* C12: start() called while the instance is Running returns at once: no
\* device call, no thread spawned, every flag and snapshot field unchanged.
C12_StartReentrant ==
    [][((KC_start \/ BB_start) /\ running) =>
          /\ pc' = "idle" /\ trace' = <<>>
          /\ UNCHANGED HandlerFrame]_vars

\* start() has been called on a Running instance whose worker is alive.
C12_Witness ==
    /\ op = "start" /\ pc = "idle" /\ trace = <<>>
    /\ running /\ Cardinality(Alive) = 1

\* C13: stop() on an instance that is neither running nor mid-start returns
\* at once (no device call, no stopWriter or clearWriteStop, no join, every
\* flag unchanged); a KC stop() that finds run set and running clear goes
\* through the whole stop sequence.
C13_StopNoOpUnlessStarted ==
    /\ [][((KC_stop \/ BB_stop) /\ ~running /\ ~run) =>
             /\ pc' = "idle" /\ trace' = <<>>
             /\ UNCHANGED HandlerFrame]_vars
    /\ [][(KC_stop /\ run /\ ~running) =>
             (pc' = "kc_stop_halt" /\ ~run')]_vars
    /\ [](pc = "kc_stop_fin" /\ ~running =>
             /\ StopOrder \in { <<"halt", "stopWriter", "join", "clearWriteStop">>,
                                 <<"halt", "stopWriter", "clearWriteStop">> }
             /\ ~run /\ ~streaming /\ ~writerStop
             /\ Unjoined = {} /\ workerThread = NoThread)

\* A KC stop() entered mid-start has joined the worker start() had spawned
\* and is about to return.
C13_Witness ==
    /\ pc = "kc_stop_fin" /\ ~running
    /\ Did("rx_stop") /\ Did("join") /\ Did("clearWriteStop")


\* Calls the control thread makes on the device.
DeviceCalls ==
    {"find", "rx_port", "rx_freq", "rx_att", "rx_amp", "rx_ext_amp", "rx_bw",
     "rx_start", "rx_stop", "close",
     "bbOpenDeviceBySerialNumber", "bbConfigureRefLevel", "bbConfigureGainAtten",
     "bbConfigureIQCenter", "bbConfigureIQ", "bbInitiate", "bbQueryIQParameters",
     "bbAbort", "bbCloseDevice"}
KC_LiveSetters == {"rx_freq", "rx_att", "rx_amp", "rx_ext_amp"}

\* The events a step of the control thread adds to its record.
NewEvents ==
    IF Len(trace') >= Len(trace) /\ SubSeq(trace', 1, Len(trace)) = trace
    THEN SubSeq(trace', Len(trace) + 1, Len(trace'))
    ELSE trace'
NewCalls == {NewEvents[i][1] : i \in 1..Len(NewEvents)}
NewDeviceCalls == NewCalls \cap DeviceCalls

Rd(fs) == {<<f, "r">> : f \in fs}
Wr(fs) == {<<f, "w">> : f \in fs}

\* Fields the next step of worker t reads or writes.
WorkerAccess(t) ==
    IF module = "KC"
    THEN CASE thr[t] = "loop" -> Rd({"run", "currentDevice"})
           [] thr[t] = "read" -> Rd({"api", "currentDevice"})
           [] thr[t] = "fail" -> Rd({"run"})
           [] thr[t] = "swap" -> Rd({"writerStop"})
           [] OTHER -> {}
    ELSE CASE thr[t] = "loop" -> Rd({"running", "purgeIQ"}) \cup Wr({"purgeIQ"})
           [] thr[t] = "read" -> Rd({"deviceHandle"})
           [] thr[t] = "swap" -> Rd({"writerStop"})
           [] OTHER -> {}

\* Fields the handlers that can be called now read or write in their first step.
KC_HandlerAccess ==
    Rd({"running", "run", "api", "currentDevice"})
        \cup Wr({"run", "freq", "att", "gain", "extGain"})
        \cup (IF running THEN {} ELSE Wr({"sampleRate", "selectedPort"}))
BB_HandlerAccess ==
    Rd({"running", "selectedSerial", "deviceHandle"})
        \cup Wr({"running", "freq", "gain", "attenuation", "refLevel", "purgeIQ"})
        \cup (IF running THEN {}
              ELSE Rd({"bandwidthHz"}) \cup Wr({"decimationId", "bandwidthHz"}))

\* Fields the next step of the control thread reads or writes.
ControlAccess ==
    CASE pc = "idle" -> IF module = "KC" THEN KC_HandlerAccess ELSE BB_HandlerAccess
      [] pc = "kc_start_find" -> Rd({"api", "currentDevice"}) \cup Wr({"currentDevice"})
      [] pc = "kc_start_cfg" ->
            Rd({"api", "currentDevice", "selectedPort", "freq", "att", "gain",
                "extGain", "sampleRate"})
      [] pc = "kc_start_rx" -> Rd({"api", "currentDevice"})
      [] pc = "kc_start_run" -> Wr({"run"})
      [] pc = "kc_start_spawn" -> Wr({"workerThread"})
      [] pc = "kc_start_running" -> Wr({"running"})
      [] pc = "kc_stop_halt" -> Rd({"api", "currentDevice"})
      [] pc \in {"kc_stop_sw", "kc_stop_clear", "bb_stop_sw", "bb_stop_clear",
                 "bb_rs_sw", "bb_rs_clear"} -> Wr({"writerStop"})
      [] pc = "kc_stop_join" -> Rd({"workerThread"}) \cup Wr({"workerThread"})
      [] pc = "kc_stop_fin" -> Wr({"running"})
      [] pc = "bb_start_open" -> Rd({"selectedSerial"}) \cup Wr({"deviceHandle"})
      [] pc \in {"bb_start_cfg", "bb_rs_cfg"} ->
            Rd({"deviceHandle", "decimationId", "bandwidthHz", "refLevel", "gain",
                "attenuation", "freq"})
                \cup Wr({"bandwidthHz"})
                \cup (IF pc = "bb_start_cfg" THEN Wr({"deviceHandle"}) ELSE {})
      [] pc = "bb_start_init" -> Rd({"deviceHandle"}) \cup Wr({"deviceHandle"})
      [] pc = "bb_start_query" ->
            Rd({"deviceHandle"}) \cup Wr({"deviceHandle", "actualSampleRate"})
      [] pc \in {"bb_start_run", "bb_rs_run"} -> Wr({"running"})
      [] pc \in {"bb_start_spawn", "bb_rs_spawn"} -> Wr({"rxThread"})
      [] pc \in {"bb_stop_join", "bb_rs_join"} -> Rd({"rxThread"}) \cup Wr({"rxThread"})
      [] pc = "bb_stop_close" -> Rd({"deviceHandle"}) \cup Wr({"deviceHandle"})
      [] pc = "bb_rs_entry" -> Rd({"running", "deviceHandle"}) \cup Wr({"running"})
      [] pc \in {"bb_rs_abort", "bb_rs_init"} -> Rd({"deviceHandle"})
      [] pc = "bb_rs_query" -> Rd({"deviceHandle"}) \cup Wr({"actualSampleRate"})
      [] OTHER -> {}

\* Fields on which two accesses conflict: the same field, at least one a write.
Conflicts(a, b) ==
    {x[1] : x \in {y \in a : \E z \in b : z[1] = y[1] /\ "w" \in {y[2], z[2]}}}

\* Fields a live worker and the control thread can access next with no
\* ordering between the two accesses.
SharedNow == UNION {Conflicts(WorkerAccess(t), ControlAccess) : t \in Alive}

\* The should-continue flag: run in KC, running in BB.
ShouldContinueField == IF module = "KC" THEN "run" ELSE "running"

\* C15: the should-continue flag and the channel's stop flag are the only
\* fields that the control thread and a live worker both access with at least
\* one of them writing.
C15_OnlyTwoFlagsShared == SharedNow \subseteq {ShouldContinueField, "writerStop"}


\* The configuration calls of the two devices, in source order, and the call
\* that starts the device stream.
KC_ConfigOrder == <<"rx_port", "rx_freq", "rx_att", "rx_amp", "rx_ext_amp", "rx_bw">>
BB_ConfigOrder == <<"bbConfigureRefLevel", "bbConfigureGainAtten",
                    "bbConfigureIQCenter", "bbConfigureIQ">>
ConfigOrder == IF module = "KC" THEN KC_ConfigOrder ELSE BB_ConfigOrder
ConfigNames == {ConfigOrder[i] : i \in 1..Len(ConfigOrder)}
StreamStart == IF module = "KC" THEN "rx_start" ELSE "bbInitiate"

\* The snapshot value a configuration call hands to the device.
ArgNow(what) ==
    CASE what = "rx_port" -> selectedPort
      [] what = "rx_freq" -> freq
      [] what = "rx_att" -> att
      [] what = "rx_amp" -> gain
      [] what = "rx_ext_amp" -> extGain
      [] what = "rx_bw" -> sampleRate
      [] what = "bbConfigureRefLevel" -> refLevel
      [] what = "bbConfigureGainAtten" -> <<gain, attenuation>>
      [] what = "bbConfigureIQCenter" -> freq
      [] what = "bbConfigureIQ" -> <<Pow2(decimationId), bandwidthHz>>

\* C16: in start() and in a restart, every configuration call and the stream
\* start have been made, with the snapshot's values and successfully, before
\* the worker thread is spawned, so before the worker's first read.
C16_ConfigBeforeFirstRead ==
    Did("spawn") =>
        /\ \A c \in ConfigNames \cup {StreamStart} :
              /\ Did(c)
              /\ \A i \in 1..Len(trace) :
                    trace[i][1] = c => (i < Pos("spawn") /\ trace[i][3])
        /\ \A c \in ConfigNames : trace[Pos(c)][2] = ArgNow(c)

\* The worker a gain-change restart spawned is inside its first read.
C16_Witness ==
    /\ op = "setGain" /\ pc = "idle" /\ Did("spawn")
    /\ \E t \in Slots : thr[t] = "read"

\* The configuration calls of the current handler, in the order made.
ConfigSeq ==
    [i \in 1..Len(SelectSeq(trace, LAMBDA e : e[1] \in ConfigNames)) |->
        SelectSeq(trace, LAMBDA e : e[1] \in ConfigNames)[i][1]]

PortFreqCalls == {"rx_port", "rx_freq", "bbConfigureIQCenter"}
AttGainBwCalls == {"rx_att", "rx_amp", "rx_ext_amp", "rx_bw",
                   "bbConfigureGainAtten", "bbConfigureIQ"}

\* C17 as stated: every start() and restart applies port and frequency before
\* attenuation, gain and bandwidth.
C17_FixedConfigOrder ==
    \A i, j \in 1..Len(trace) :
        (trace[i][1] \in PortFreqCalls /\ trace[j][1] \in AttGainBwCalls) => i < j

\* C17 as amended: every start() and restart makes the configuration calls
\* in one fixed order per module: KC port, frequency, attenuation, IF gain,
\* external gain, bandwidth; BB reference level, gain and attenuation, centre
\* frequency, decimation and bandwidth.
C17_FixedConfigOrder_PerModule ==
    (op = "start" \/ module = "BB") => IsPrefix(ConfigSeq, ConfigOrder)

\* A reference-level restart has made all four BB configuration calls.
C17_Witness ==
    /\ op = "setRefLevel" /\ Did("bbConfigureIQ")
    /\ trace[Pos("bbConfigureIQ")][3]


\* The call that asks the device for its effective sample rate.  The KC
\* handlers make no such call.
RateQuery == "bbQueryIQParameters"

\* C18: whenever a handler has spawned a worker, it notified the consumer of
\* the sample rate before the spawn, and the rate it sent is the one the
\* device reported when queried in that handler.
C18_RateNotificationTracksDevice ==
    Did("spawn") =>
        /\ Did("setInputSampleRate") /\ Pos("setInputSampleRate") < Pos("spawn")
        /\ Did(RateQuery) /\ trace[Pos(RateQuery)][3]
        /\ Pos(RateQuery) < Pos("setInputSampleRate")
        /\ module = "BB" =>
              trace[Pos("setInputSampleRate")][2] = BB_DevRate(decimationId)




Min2(a, b) == IF a <= b THEN a ELSE b
Max2(a, b) == IF a >= b THEN a ELSE b

\* min(max(b, 200), maxBandwidths[d])
Coerce(b, d) == Min2(Max2(b, 200), maxBandwidths[d + 1])

\* C19: for every decimation index 0..13 and requested bandwidth b, once
\* start() or a restart has validated the bandwidth the snapshot holds
\* min(max(b, 200), maxBandwidths[d]), that value is what bbConfigureIQ is
\* given (exactly the maximum when b is above it), and the rate notification
\* is sent after the device was configured with it.
C19_BandwidthCoercion ==
    (module = "BB" /\ Did("bbConfigureRefLevel")) =>
        /\ bandwidthHz = Coerce(snap0.bandwidthHz, decimationId)
        /\ snap0.bandwidthHz > maxBandwidths[decimationId + 1]
              => bandwidthHz = maxBandwidths[decimationId + 1]
        /\ Did("bbConfigureIQ") =>
              trace[Pos("bbConfigureIQ")][2] = <<Pow2(decimationId), bandwidthHz>>
        /\ Did("setInputSampleRate") =>
              /\ Did("bbConfigureIQ")
              /\ Pos("bbConfigureIQ") < Pos("setInputSampleRate")
              /\ trace[Pos("setInputSampleRate")][2] = BB_DevRate(decimationId)

\* With decimation index 13 a request of 27 MHz has been adopted as 4 kHz and
\* the rate notified.
C19_Witness ==
    /\ module = "BB" /\ decimationId = 13 /\ snap0.bandwidthHz = 27000000
    /\ Did("setInputSampleRate") /\ bandwidthHz = 4000


\* C20: no step of a worker thread writes the run or running flag, a thread
\* handle, the device handle or the channel's stop flag.
C20_WorkerNeverMutatesRunState ==
    [][\A t \in Slots :
          WorkerStep(t) =>
              UNCHANGED <<run, running, workerThread, rxThread,
                          currentDevice, deviceHandle, writerStop>>]_vars

\* A KC worker whose read has just failed while the instance is Running.
C20_Witness ==
    /\ module = "KC" /\ run /\ running
    /\ \E t \in Slots : thr[t] = "fail" /\ workerThread = t

\* The step with which a start() that was called right after an aborted
\* start() returns, every call it made having succeeded.
RetryReturns ==
    /\ afterAbort /\ op = "start" /\ pc # "idle" /\ pc' = "idle"
    /\ AllOk(trace')

\* C21: a start() called right after a start() that aborted on an
\* initialisation error (no stop() in between), and whose device calls all
\* succeed, returns with the instance Running, the device streaming, and
\* exactly one worker alive, which is the one it spawned.
C21_FailedStartRetry ==
    [][RetryReturns =>
        /\ running' /\ ShouldContinue' /\ streaming'
        /\ Cardinality(Alive') = 1
        /\ Did("spawn")'
        /\ (IF module = "KC" THEN workerThread' ELSE rxThread') \in Alive'
        /\ IF module = "KC" THEN currentDevice' ELSE deviceHandle' # -1]_vars

\* A retried BB start() has returned Running.
C21_Witness ==
    /\ module = "BB" /\ op = "start" /\ pc = "idle" /\ afterAbort
    /\ running /\ Did("bbOpenDeviceBySerialNumber") /\ Did("spawn")
    /\ AllOk(trace)

\* A retried KC start() has returned Running.
C21_Witness_KC ==
    /\ module = "KC" /\ op = "start" /\ pc = "idle" /\ afterAbort
    /\ running /\ Did("find") /\ Did("spawn") /\ AllOk(trace)

\* ------------------------------------------------- the conversion, all inputs
\* A running KC instance whose device delivers one given raw batch on every
\* successful read; the batch is any sequence over RawVals.
InitConv ==
    /\ module = "KC" /\ devKind = "normal"
    /\ op = "start" /\ pc = "idle"
    /\ thr = [t \in Slots |-> IF t = 1 THEN "loop" ELSE "none"]
    /\ workerThread = 1
    /\ writerStop = FALSE /\ canSwap = TRUE
    /\ streaming = TRUE /\ openCount = 0
    /\ running = TRUE /\ run = TRUE
    /\ api = TRUE /\ currentDevice = TRUE
    /\ selectedSerial = 0 /\ deviceHandle = -1 /\ rxThread = NoThread
    /\ actualSampleRate = BB_DefaultSampleRate
    /\ purgeIQ = FALSE
    /\ devData \in RawBuffers
    /\ readBuffer = [t \in Slots |-> ZeroBuffer]
    /\ out = ZeroOut
    /\ afterAbort = FALSE
    /\ InitDefaults
    /\ trace = KC_ConfigCalls \o << Ev("rx_start", 0, TRUE), Ev("spawn", 1, TRUE) >>
    /\ cycles = MaxCycles
    /\ snap0 = Snapshot

\* The worker runs and the consumer reads.
NextConv ==
    \/ \E t \in Slots : KC_Worker(t)
    \/ Consume

SpecConv == InitConv /\ [][NextConv]_vars

\* FullScale * (o - r / FullScale), in units of 2^-30: how far the float o is
\* from the exact quotient r / 32767, times 32767.
\* (2^30 = Q * FullScale + R, so FullScale * o - r * 2^30 is as below.)
ErrTimesFullScale(o, r) ==
    LET Q == Unit \div KC_FullScale
        R == Unit % KC_FullScale
    IN  KC_FullScale * (o - r * Q) - r * R

\* o is r / 32767 as a float: within one float spacing of the exact quotient,
\* and exact at the ends and at zero.
Normalized(o, r) ==
    /\ Abs(ErrTimesFullScale(o, r)) <= KC_FullScale * Ulp(Abs(o))
    /\ r = KC_FullScale => o = Unit
    /\ r = 0 => o = 0
    \* -32768 gives -(1 + 2^-15), the float next to -32768/32767; it is one
    \* quantisation step (1/32767, within a float spacing) below -1
    /\ r = -32768 =>
        /\ o = -(Unit + Unit \div 32768)
        /\ Abs(KC_FullScale * (-Unit - o) - Unit) <= KC_FullScale * Ulp(Abs(o))

\* C22: once the KC worker has converted a batch, for every sample i the real
\* part is the raw word at position 2i and the imaginary part the raw word at
\* position 2i+1 (counted from 0), each scaled by the same factor to r / 32767
\* as a float: 32767 gives exactly +1, 0 gives exactly 0, and -32768 gives
\* -32768/32767, one quantisation step beyond -1.
C22_Normalization ==
    \A t \in Slots :
        (module = "KC" /\ thr[t] = "swap") =>
            \A i \in 1..MaxSamples :
                /\ Normalized(out[i].re, readBuffer[t][2 * i - 1])
                /\ Normalized(out[i].im, readBuffer[t][2 * i])

\* A converted batch with +full scale in I and -full scale in Q of the first
\* sample and a value whose product needs rounding in the second.
C22_Witness ==
    \E t \in Slots :
        /\ module = "KC" /\ thr[t] = "swap"
        /\ readBuffer[t][1] = KC_FullScale /\ readBuffer[t][2] = -32768
        /\ readBuffer[t][3] = 12345 /\ readBuffer[t][4] = 0
        /\ out[1].re = Unit /\ out[1].im < -Unit
        /\ out[2].re # 12345 * KC_scale /\ out[2].im = 0

\* KC stop() (called directly or by the destructor) has cleared run, halted
\* the device and stopped the channel's writer, and is about to join.
KC_Signalled == module = "KC" /\ pc = "kc_stop_join"

\* Statements a KC worker at this position can still execute before it
\* returns, at most, once stop() has signalled.
KC_StepsLeft(p) ==
    CASE p = "read" -> 3
      [] p = "conv" -> 2
      [] p \in {"loop", "fail", "swap"} -> 1
      [] OTHER -> 0

\* C23: in KC SDR, once stop() has set run false, halted the device and
\* stopped the channel's writer, a worker at any position of its iteration is
\* never blocked, every statement it executes brings it nearer to its exit,
\* it never gets to issue a read again after the one it may have been about to
\* issue or inside (so at most one further read), and no batch is published.
C23_EitherOrderShutdown ==
    /\ [](KC_Signalled => \A t \in Alive : ENABLED WorkerStep(t))
    /\ [][KC_Signalled =>
            /\ \A t \in Slots :
                /\ WorkerStep(t) => KC_StepsLeft(thr'[t]) < KC_StepsLeft(thr[t])
                /\ thr'[t] = "read" => thr[t] = "read"
            /\ canSwap => canSwap']_vars

\* stop() has signalled while the worker was inside a blocking read, and the
\* read has returned.
C23_Witness ==
    /\ KC_Signalled /\ devKind = "blocking"
    /\ \E t \in Slots : thr[t] = "fail" /\ workerThread = t

\* stop() has signalled while the worker held a batch it had not converted.
C23_Witness_Conv == KC_Signalled /\ \E t \in Slots : thr[t] = "conv"

\* stop() has signalled while the worker was inside swap().
C23_Witness_Swap == KC_Signalled /\ ~canSwap /\ \E t \in Slots : thr[t] = "swap"

\* The controller holds a device handle (non-null in KC, not -1 in BB).
HandlePresent == IF module = "KC" THEN currentDevice ELSE deviceHandle # -1

\* C24: in both modules a worker that is about to issue a device read, or is
\* inside one, has a device handle; in KC SDR no worker is ever alive without
\* a handle (and a worker that did find none would go back to its loop test
\* rather than read); and the handle goes from present to absent only when no
\* worker thread exists.
C24_NoReadWithoutDevice ==
    /\ [](\A t \in Slots : thr[t] = "read" => HandlePresent)
    /\ [](module = "KC" /\ Alive # {} => currentDevice)
    /\ [][\A t \in Slots :
            KC_worker_loop(t) /\ run /\ ~currentDevice => thr'[t] = "loop"]_vars
    /\ [][HandlePresent /\ ~HandlePresent' => Unjoined = {}]_vars

\* The KC destructor has cleared the handle after its stop() joined a worker.
C24_Witness ==
    /\ module = "KC" /\ pc = "destroyed" /\ ~currentDevice
    /\ Did("join") /\ Did("close") /\ Pos("join") < Pos("close")

\* Everything but the stored frequency and the record of the current handler.
TuneFrame == <<entryFrame, pc, thr, chan, dev, running, gain, kcAll, bbFlags,
               bbCfg, cycles>>

\* The frequency call of start(): rx_freq (KC), bbConfigureIQCenter (BB).
FreqCall == IF module = "KC" THEN "rx_freq" ELSE "bbConfigureIQCenter"

\* C25: in both modules tune(f) called while not running returns at once,
\* having made no device call, spawned or joined no thread and left the
\* channel alone; it changes nothing but the stored frequency, which becomes
\* f.  Whatever is called next, the frequency a start() passes to the device
\* is the stored one, so the first successful start() applies the frequency
\* of the most recent tune.
C25_TuneWhileStopped ==
    /\ [][\A f \in Freqs :
            (KC_tune(f) \/ BB_tune(f)) /\ ~running =>
                /\ freq' = f /\ pc' = "idle" /\ trace' = <<>>
                /\ UNCHANGED TuneFrame]_vars
    /\ [][op = "tune" /\ ~running /\ (KC_start \/ BB_start) => freq' = freq]_vars
    /\ [](op = "start" /\ Did(FreqCall)
            => trace[Pos(FreqCall)][2] = freq)

\* tune() has been called while stopped and has stored a frequency other
\* than the one the instance was constructed with.
C25_Witness ==
    /\ op = "tune" /\ pc = "idle" /\ ~running /\ trace = <<>>
    /\ freq # snap0.freq

\* A successful start() has applied a tuned frequency.
C25_Witness_Start ==
    /\ op = "start" /\ pc = "idle" /\ running /\ AllOk(trace)
    /\ Did(FreqCall) /\ trace[Pos(FreqCall)][2] = freq
    /\ freq # snap0.freq

\* C26: in both modules, whenever the control thread is in no handler and
\* running is true, exactly one worker thread is alive (it has not left its
\* loop).
C26_RunningImpliesLiveWorker ==
    (pc = "idle" /\ running) => Cardinality(Alive) = 1

\* C27: in both modules, whenever a worker thread is spawned, by start() or
\* by a restart, the channel's writer-stop flag is clear.
C27_SpawnOnClearChannel ==
    [][(KC_start_spawn \/ BB_start_spawn \/ BB_rs_spawn) => ~writerStop]_vars

\* C28: in SignalHound BB the device is never opened while an earlier handle
\* is still unclosed, and whenever the instance is Stopped (running false, no
\* handler in progress) deviceHandle is -1.
C28_HandleBalance ==
    module = "BB" =>
        /\ openCount <= 1
        /\ (pc = "idle" /\ ~running) => deviceHandle = -1

\* A new std::thread is assigned to the controller's thread handle.
SpawnStep == KC_start_spawn \/ BB_start_spawn \/ BB_rs_spawn
\* The controller's thread handle: workerThread (KC), rxThread (BB).
ThreadHandle == IF module = "KC" THEN workerThread ELSE rxThread

\* C29: in both modules, at every assignment of a new std::thread to the
\* controller's thread handle (start and restart) the handle holds no joinable
\* thread and every worker spawned before has been joined, so the process is
\* never terminated by the assignment.
C29_NoSpawnOverJoinable ==
    /\ [][SpawnStep => ThreadHandle = NoThread /\ Unjoined = {}]_vars
    /\ [](pc # "terminated")

\* A restart has spawned a new worker after joining the one before.
C29_Witness ==
    /\ module = "BB" /\ pc = "idle" /\ op = "tune"
    /\ Did("join") /\ Did("spawn") /\ Pos("join") < Pos("spawn")
    /\ rxThread \in Alive

\* A second KC start() has spawned a worker.
C29_Witness_KC ==
    /\ module = "KC" /\ op = "start" /\ pc = "kc_start_running"
    /\ Did("spawn") /\ workerThread \in Alive /\ currentDevice /\ ~Did("find")

\* The calls that release the device handle.
CloseCalls == {"close", "bbCloseDevice"}

\* C30: in both modules every call that closes the device handle (api->close
\* in the KC destructor, bbCloseDevice in BB) is made when every worker thread
\* that was spawned has been joined; a destroyed instance has no worker thread;
\* and a worker inside a device read always has an open handle.
C30_CloseAfterJoin ==
    /\ [][NewCalls \cap CloseCalls # {} => Unjoined = {} /\ ThreadHandle = NoThread]_vars
    /\ [](pc = "destroyed" => Unjoined = {})
    /\ [](\A t \in Slots : thr[t] \in {"read", "fail"} => HandlePresent)

\* The BB destructor's stop() has joined the worker and then closed the device.
C30_Witness ==
    /\ module = "BB" /\ pc = "destroyed"
    /\ Did("join") /\ Did("bbCloseDevice") /\ Pos("join") < Pos("bbCloseDevice")
    /\ deviceHandle = -1

\* BB stop() has joined the worker and then closed the device.
C30_Witness_Stop ==
    /\ module = "BB" /\ op = "stop" /\ pc = "idle"
    /\ Did("join") /\ Did("bbCloseDevice") /\ Pos("join") < Pos("bbCloseDevice")

\* ----------------------------------------------- a worker that has given up
\* A BB instance that start() has left Running, with any configuration, and
\* whose worker has since left its loop on a bbGetIQ error: its thread has
\* returned and has not been joined, running is still true, the device still
\* streams.
InitSelfExit ==
    /\ module = "BB" /\ devKind = "normal"
    /\ op = "start" /\ pc = "idle"
    /\ thr = [t \in Slots |-> IF t = 1 THEN "done" ELSE "none"]
    /\ rxThread = 1
    /\ writerStop = FALSE /\ canSwap \in BOOLEAN
    /\ streaming = TRUE /\ openCount = 1 /\ deviceHandle = 0
    /\ running = TRUE
    /\ api = FALSE /\ currentDevice = FALSE /\ run = FALSE
    /\ workerThread = NoThread
    /\ selectedSerial = 1
    /\ purgeIQ = FALSE
    /\ devData = ZeroBuffer
    /\ readBuffer = [t \in Slots |-> ZeroBuffer]
    /\ out = ZeroOut
    /\ afterAbort = FALSE
    /\ freq \in Freqs /\ gain \in BB_GainVals /\ attenuation \in BB_AttenVals
    /\ refLevel \in BB_RefLevels /\ decimationId \in BB_DecimIds
    /\ \E b \in BB_Bandwidths : bandwidthHz = ClampBandwidth(b, decimationId)
    /\ actualSampleRate = BB_DevRate(decimationId)
    /\ selectedPort = KC_DefaultPort /\ att = KC_DefaultAtt
    /\ extGain = KC_DefaultExtGain /\ sampleRate = KC_DefaultSampleRate
    /\ trace = << Ev("bbOpenDeviceBySerialNumber", selectedSerial, TRUE) >>
                 \o BB_ConfigCalls(4, bandwidthHz)
                 \o << Ev("bbInitiate", deviceHandle, TRUE),
                       Ev("bbQueryIQParameters", deviceHandle, TRUE),
                       Ev("setInputSampleRate", actualSampleRate, TRUE),
                       Ev("spawn", 1, TRUE) >>
    /\ cycles = 0
    /\ snap0 = Snapshot

\* start() and stop() with their steps, the worker and the consumer.
NextSelfExit ==
    \/ BB_start \/ BB_start_open \/ BB_start_cfg \/ BB_start_init
    \/ BB_start_query \/ BB_start_run \/ BB_start_spawn
    \/ BB_stop \/ BB_stop_sw \/ BB_stop_join \/ BB_stop_close \/ BB_stop_clear
    \/ \E t \in Slots : pc # "terminated" /\ BB_Worker(t)
    \/ pc # "terminated" /\ Consume

\* A handler that has been entered keeps running, and so does a worker.
SpecSelfExit ==
    /\ InitSelfExit /\ [][NextSelfExit]_vars
    /\ WF_vars(ControlStep)
    /\ \A t \in Slots : WF_vars(WorkerStep(t))

\* The worker thread has returned by itself while running is still true.
SelfExited ==
    /\ module = "BB" /\ running /\ rxThread # NoThread
    /\ thr[rxThread] = "done" /\ Alive = {}

BB_StopPcs == {"bb_stop_sw", "bb_stop_join", "bb_stop_close", "bb_stop_clear"}

\* The calls of the current handler, by name, in order.
CallNames == [i \in 1..Len(trace) |-> trace[i][1]]

\* C31: in SignalHound BB, when the worker has left its loop by itself while
\* running is still true, a following stop() is not refused and completes:
\* it stops the writer, joins the finished thread, aborts and closes the
\* device and clears the channel's stop flag, in that order, and leaves the
\* instance Stopped with no thread and no handle; a following start() is not
\* refused and spawns its worker on an empty thread handle and a clear channel.
C31_StopAfterSelfExit ==
    /\ [][BB_stop /\ SelfExited => pc' = "bb_stop_sw" /\ ~running']_vars
    /\ (pc \in BB_StopPcs /\ cycles = 0) ~> (op = "stop" /\ pc = "idle" /\ cycles = 1)
    /\ [](op = "stop" /\ pc = "idle" /\ cycles = 1 =>
            /\ ~running /\ ~streaming /\ ~writerStop
            /\ deviceHandle = -1 /\ openCount = 0
            /\ rxThread = NoThread /\ Unjoined = {}
            /\ ~BB_startNoOp
            /\ trace # <<>> =>
                 CallNames = << "stopWriter", "join", "bbAbort", "bbCloseDevice",
                                "clearWriteStop" >>)
    /\ [][BB_start_spawn /\ cycles = 1 =>
            rxThread = NoThread /\ ~writerStop /\ pc' = "idle" /\ running]_vars

\* The stop() that followed the worker's own exit has completed.
C31_Witness ==
    /\ op = "stop" /\ pc = "idle" /\ cycles = 1
    /\ Did("join") /\ Did("bbCloseDevice") /\ Did("clearWriteStop")
    /\ ~running /\ deviceHandle = -1

\* The start() that followed that stop() has spawned a new worker.
C31_Witness_Start ==
    /\ op = "start" /\ pc = "idle" /\ cycles = 1
    /\ Did("spawn") /\ running /\ rxThread \in Alive

=============================================================================
